---- MODULE Spec2Model ----
(***************************************************************************)
(* Discovery engine of accessibility-checker: URL normaliser, sitemap      *)
(* harvester (fetchXml / parseSitemapUrls), crawl frontier (crawlSite /    *)
(* crawlPage) and the discover orchestrator.                               *)
(*                                                                         *)
(* A URL string is represented by the components the WHATWG URL parser     *)
(* gives it: protocol, hostname, port, pathname (a sequence of characters),*)
(* query (the '&'-separated tokens after '?') and hash.  Two URL strings   *)
(* are equal exactly when their records are equal.                         *)
(***************************************************************************)
EXTENDS Integers, Sequences, FiniteSets, TLC

VARIABLES
    \* --- normalizeUrl applied to one input (src/utils/url.ts) ---
    u_stage,      \* "input" | "once" | "twice"
    u_raw,        \* the parsed input URL
    u_other,      \* a second input, equal to u_raw but for its fragment
    u_once,       \* normalizeUrl(u_raw)
    u_twice,      \* normalizeUrl(normalizeUrl(u_raw))
    u_otherOnce,  \* normalizeUrl(u_other)
    \* --- crawlSite (crawler/crawl.ts) ---
    c_opts,       \* CrawlOptions: baseUrl, maxPages, maxDepth, concurrency, respectRobots
    c_site,       \* the site: the anchors page.$$eval returns for each page
    c_robots,     \* what parseRobots(startUrl) returned
    c_pc,         \* "idle" | "loop" | "batch" | "sleep" | "closing" | "returned" | "threw"
    c_visited,    \* the Set `visited`, in insertion order
    c_queue,      \* the array `queue` of {url, depth}
    c_batch,      \* the tasks of the running batch, each with its position in crawlPage
    c_gotos,      \* every page.goto issued so far: {url, depth}, in order
    c_created,    \* how many {url, depth} tasks were put on the queue so far
    c_consumed,   \* how many crawlPage calls were started so far
    c_failed,     \* TRUE once a page.goto or $$eval has rejected
    c_contexts,   \* the tasks of the batch (by position) whose browser context is open
    \* --- parseSitemapUrls and fetchXml (sitemap/fetchSitemap.ts) ---
    h_pc,         \* "idle" | "running" | "done" | "collected" | "raised"
    h_base,       \* the `base` argument
    h_web,        \* the sitemap documents the site serves, by URL
    h_servers,    \* how the server answers for each document: "any" | "ok" | "down"
    h_stack,      \* the active parseSitemapUrls calls, innermost last
    h_result,     \* what the outermost call returned
    f_pc,         \* fetchXml of the innermost call: "get" | "sleep" | "returned" | "threw"
    f_attempt,    \* the loop variable `attempt`
    f_lastError,  \* TRUE once lastError is set
    f_requests,   \* axios.get calls issued for this document
    f_sleeps,     \* sleep() calls made for this document
    f_delay,      \* the argument of the running sleep()
    f_last,       \* the latest response and the time it arrived
    f_now,        \* Date.now()
    \* --- discover (cli) and discoverSitemaps (sitemap/discover.ts) ---
    d_pc,         \* "idle" | "start" | "harvest" | "crawl" | "done" | "threw"
    d_robots,     \* what parseRobots(baseUrl) returned to discoverSitemaps
    d_explicit,   \* args.sitemap, NoUrl when not given
    d_sitemaps,   \* the seed list `sitemaps`
    d_idx,        \* the seed the for loop is at
    d_returned,   \* all lists parseSitemapUrls returned so far, concatenated
    d_sitemapUrls,\* the Set `sitemapUrls`, in insertion order
    d_combined,   \* the array `combined`
    \* --- isSameHost applied to one pair (src/utils/url.ts) ---
    s_stage,      \* "idle" | "input" | "done"
    s_a,          \* the parsed argument a
    s_b,          \* the parsed argument b
    s_same,       \* isSameHost(a, b)
    \* --- parseRobots called by discoverSitemaps or crawlSite (src/utils/robots.ts) ---
    r_pc,         \* "idle" | "fetch" | "parse" | "returned" | "threw"
    r_outcome,    \* how axios.get(robotsUrl) settles
    r_fetched,    \* what fetchRobots returned
    r_policy,     \* what parseRobots returned
    r_caller,     \* "discoverSitemaps" | "crawlSite"
    r_callerPc,   \* "waiting" | "resumed" | "rejected"
    \* --- runAxeForUrls (src/scan/axeRunner.ts) ---
    x_pc,         \* "idle" | "loop" | "returned"
    x_urls,       \* opts.urls
    x_maxIssues,  \* opts.maxIssues
    x_idx,        \* the position of the for loop in opts.urls
    x_results,    \* the array `results`: {url, violations (their number), error}
    x_total,      \* totalViolations
    x_gotos,      \* every page.goto issued so far, in order
    \* --- isLikelyHtmlPage applied to one input (src/utils/url.ts) ---
    l_stage,      \* "idle" | "input" | "done"
    l_raw,        \* the parsed input URL, NoUrl or a string new URL() throws on
    l_other,      \* a second input, equal to l_raw but for its query and fragment
    l_html,       \* isLikelyHtmlPage(l_raw)
    l_otherHtml   \* isLikelyHtmlPage(l_other)

urlVars == <<u_stage, u_raw, u_other, u_once, u_twice, u_otherOnce>>
crawlVars == <<c_opts, c_site, c_robots, c_pc, c_visited, c_queue, c_batch, c_gotos,
               c_created, c_consumed, c_failed, c_contexts>>

fetchVars == <<f_pc, f_attempt, f_lastError, f_requests, f_sleeps, f_delay, f_last, f_now>>
harvestVars == <<h_pc, h_base, h_web, h_servers, h_stack, h_result, fetchVars>>

discoverVars == <<d_pc, d_robots, d_explicit, d_sitemaps, d_idx, d_returned,
                  d_sitemapUrls, d_combined>>

sameHostVars == <<s_stage, s_a, s_b, s_same>>
robotsVars == <<r_pc, r_outcome, r_fetched, r_policy, r_caller, r_callerPc>>
scanVars == <<x_pc, x_urls, x_maxIssues, x_idx, x_results, x_total, x_gotos>>
htmlVars == <<l_stage, l_raw, l_other, l_html, l_otherHtml>>

\* the functions driven on their own
callVars == <<urlVars, sameHostVars, robotsVars, scanVars, htmlVars>>

vars == <<callVars, crawlVars, harvestVars, discoverVars>>

\* what each component leaves alone
nonUrlVars == <<crawlVars, harvestVars, discoverVars, sameHostVars, robotsVars, scanVars,
                htmlVars>>
nonCrawlVars == <<callVars, harvestVars, discoverVars>>
nonHarvestVars == <<callVars, crawlVars, discoverVars>>
nonSameHostVars == <<crawlVars, harvestVars, discoverVars, urlVars, robotsVars, scanVars,
                     htmlVars>>
nonRobotsVars == <<crawlVars, harvestVars, discoverVars, urlVars, sameHostVars, scanVars,
                   htmlVars>>
nonScanVars == <<crawlVars, harvestVars, discoverVars, urlVars, sameHostVars, robotsVars,
                 htmlVars>>
nonHtmlVars == <<crawlVars, harvestVars, discoverVars, urlVars, sameHostVars, robotsVars,
                 scanVars>>

----------------------------------------------------------------------------
(* Bounds of the model *)

\* page budget of the crawl of the deep site: more than the site has pages
DeepMaxPages == 8

\* most URLs handed to a scan
MaxUrls == 3

\* largest maxIssues tried
MaxIssuesBound == 3

\* most violations axe reports for one page
MaxViolations == 2

\* most consecutive '/' characters at the end of an input path
MaxSlashes == 2
\* most '&'-separated tokens in an input query
MaxParams == 2
\* largest maxPages, maxDepth and concurrency option tried
MaxPagesBound == 3
MaxDepthBound == 2
MaxConcurrency == 2
\* deepest nesting of sitemapindex documents followed
MaxNesting == 3

----------------------------------------------------------------------------
(* URL values *)

\* url.hash of a URL without '#'
NoFragment == "<none>"

Url(protocol, hostname, port, pathname, query, hash) ==
    [protocol |-> protocol, hostname |-> hostname, port |-> port,
     pathname |-> pathname, query |-> query, hash |-> hash]

\* a query token "k=v"; pct: the value is spelled percent-encoded ("%31" for "1")
Tok(k, v, pct) == [k |-> k, v |-> v, pct |-> pct]
\* the empty token, as in "?" alone or between "&&"
EmptyTok == Tok("", "", FALSE)

RECURSIVE Slashes(_)
Slashes(n) == IF n = 0 THEN <<>> ELSE <<"/">> \o Slashes(n - 1)

Stems == { <<>>, <<"/", "x">>, <<"/", "x", "/", "y">>, <<"/", "f", ".", "p", "d", "f">> }

\* pathname of an http(s) URL: never empty, starts with '/'
Paths == { s \o Slashes(n) : s \in Stems, n \in 0..MaxSlashes } \ { <<>> }

Tokens == { Tok("a", "1", FALSE), Tok("a", "1", TRUE), Tok("a", "2", FALSE),
            Tok("b", "1", FALSE), EmptyTok }

RECURSIVE SeqsUpTo(_, _)
SeqsUpTo(S, n) ==
    IF n = 0 THEN { <<>> }
    ELSE LET shorter == SeqsUpTo(S, n - 1)
         IN shorter \cup { Append(q, t) : q \in shorter, t \in S }

Queries == SeqsUpTo(Tokens, MaxParams)

Fragments == { NoFragment, "", "f" }

RawUrls ==
    { Url(pr, h, "", p, q, f) :
        pr \in {"http:", "https:"}, h \in {"a.com"},
        p \in Paths, q \in Queries, f \in Fragments }

----------------------------------------------------------------------------
(* src/utils/url.ts *)

\* two keys that are canonically equivalent: "é" as U+00E9 and as "e" + U+0301
KeyPrecomposed == "U+00E9"
KeyDecomposed == "e U+0301"

\* String.prototype.localeCompare on the keys the model uses: "" < "a" < "b" < "B"
\* < "é"; canonically equivalent strings compare as equal (ECMA-262, 22.1.3.12)
KeyRank(k) ==
    CASE k = "" -> 0 [] k = "a" -> 1 [] k = "b" -> 2 [] k = "B" -> 3
      [] k = KeyPrecomposed -> 4 [] k = KeyDecomposed -> 4
localeCompare(a, b) == KeyRank(a) - KeyRank(b)

\* url.searchParams.entries(): the non-empty tokens, decoded, in document order
RECURSIVE searchParamsEntries(_)
searchParamsEntries(query) ==
    IF query = <<>> THEN <<>>
    ELSE LET t == Head(query)
         IN (IF t = EmptyTok THEN <<>> ELSE << <<t.k, t.v>> >>)
            \o searchParamsEntries(Tail(query))

\* Array.prototype.sort with (a, b) => a[0].localeCompare(b[0]); the sort is stable
RECURSIVE InsertEntry(_, _)
InsertEntry(e, sorted) ==
    IF sorted = <<>> THEN <<e>>
    ELSE IF localeCompare(e[1], Head(sorted)[1]) < 0 THEN <<e>> \o sorted
    ELSE <<Head(sorted)>> \o InsertEntry(e, Tail(sorted))

RECURSIVE sortEntries(_)
sortEntries(entries) ==
    IF entries = <<>> THEN <<>>
    ELSE InsertEntry(entries[Len(entries)],
                     sortEntries(SubSeq(entries, 1, Len(entries) - 1)))

\* new URLSearchParams(entries).toString(): every pair re-encoded in the one
\* canonical spelling
RECURSIVE serializeEntries(_)
serializeEntries(entries) ==
    IF entries = <<>> THEN <<>>
    ELSE <<Tok(Head(entries)[1], Head(entries)[2], FALSE)>>
         \o serializeEntries(Tail(entries))

endsWithSlash(pathname) == Len(pathname) > 0 /\ pathname[Len(pathname)] = "/"

\* lines 12-14: if (pathname !== '/' && pathname.endsWith('/')) pathname = pathname.slice(0, -1)
stripTrailingSlash(pathname) ==
    IF pathname # <<"/">> /\ endsWithSlash(pathname)
    THEN SubSeq(pathname, 1, Len(pathname) - 1)
    ELSE pathname

\* a normaliser that leaves the fragment in place
keepHash(hash) == hash

\* line 11: url.hash = ''
clearHash(hash) == NoFragment

\* lines 16-17: sorted entries, search = entries.length ? '?' + ... : ''
sortedSearch(query) == serializeEntries(sortEntries(searchParamsEntries(query)))

normalizeUrl(raw) ==
    [raw EXCEPT !.hash = clearHash(raw.hash),
                !.pathname = stripTrailingSlash(raw.pathname),
                !.query = sortedSearch(raw.query)]

\* url.host: hostname plus ':' port when the port is not the scheme's default
hostOf(u) == <<u.hostname, u.port>>

\* a test that knows one loopback name only
isLocalhostOnly(hostname) == hostname = "localhost"

isLocal(hostname) == hostname = "localhost" \/ hostname = "127.0.0.1"

isSameHost(a, b) ==
    IF isLocal(a.hostname) /\ isLocal(b.hostname) THEN TRUE
    ELSE hostOf(a) = hostOf(b) /\ a.protocol = b.protocol

HTML_EXTENSIONS == {
    <<>>, <<".", "h", "t", "m", "l">>, <<".", "h", "t", "m">>,
    <<".", "x", "h", "t", "m", "l">>, <<".", "p", "h", "p">>,
    <<".", "p", "h", "p", "5">>, <<".", "a", "s", "p">>, <<".", "a", "s", "p", "x">>,
    <<".", "j", "s", "p">>, <<".", "c", "f", "m">> }

NON_HTML_EXTENSIONS == {
    <<".", "p", "d", "f">>, <<".", "j", "p", "g">>, <<".", "j", "p", "e", "g">>,
    <<".", "p", "n", "g">>, <<".", "g", "i", "f">>, <<".", "b", "m", "p">>,
    <<".", "s", "v", "g">>, <<".", "w", "e", "b", "p">>, <<".", "i", "c", "o">>,
    <<".", "a", "v", "i", "f">>, <<".", "m", "p", "4">>, <<".", "w", "e", "b", "m">>,
    <<".", "m", "o", "v">>, <<".", "m", "k", "v">>, <<".", "m", "p", "3">>,
    <<".", "w", "a", "v">>, <<".", "f", "l", "a", "c">>, <<".", "z", "i", "p">>,
    <<".", "r", "a", "r">>, <<".", "7", "z">>, <<".", "g", "z">>,
    <<".", "t", "g", "z">>, <<".", "t", "a", "r">>, <<".", "b", "z", "2">>,
    <<".", "j", "s", "o", "n">>, <<".", "x", "m", "l">>, <<".", "r", "s", "s">>,
    <<".", "a", "t", "o", "m">>, <<".", "c", "s", "v">>, <<".", "t", "x", "t">>,
    <<".", "d", "o", "c">>, <<".", "d", "o", "c", "x">>, <<".", "p", "p", "t">>,
    <<".", "p", "p", "t", "x">>, <<".", "x", "l", "s">>, <<".", "x", "l", "s", "x">>,
    <<".", "i", "c", "s">>, <<".", "p", "s">>, <<".", "e", "p", "s">>,
    <<".", "w", "o", "f", "f">>, <<".", "w", "o", "f", "f", "2">>,
    <<".", "t", "t", "f">>, <<".", "o", "t", "f">>, <<".", "e", "o", "t">>,
    <<".", "a", "v", "i">>, <<".", "t", "s">>, <<".", "m", "p", "e", "g">>,
    <<".", "m", "p", "g">>, <<".", "f", "l", "v">>, <<".", "m", "4", "v">>,
    <<".", "a", "p", "k">>, <<".", "d", "m", "g">>, <<".", "e", "x", "e">>,
    <<".", "b", "i", "n">>, <<".", "i", "s", "o">>, <<".", "s", "c", "s", "s">>,
    <<".", "l", "e", "s", "s">>, <<".", "c", "s", "s">> }

\* String.prototype.toLowerCase on the characters the model uses
lowerChar(c) ==
    CASE c = "P" -> "p" [] c = "D" -> "d" [] c = "F" -> "f" [] c = "H" -> "h"
      [] c = "T" -> "t" [] c = "M" -> "m" [] c = "L" -> "l" [] c = "X" -> "x"
      [] OTHER -> c
toLowerCase(str) == [i \in 1..Len(str) |-> lowerChar(str[i])]

\* String.prototype.lastIndexOf(c), 1-based; 0 when c does not occur
RECURSIVE lastIndexOf(_, _)
lastIndexOf(str, c) ==
    IF str = <<>> THEN 0
    ELSE IF str[Len(str)] = c THEN Len(str)
    ELSE lastIndexOf(SubSeq(str, 1, Len(str) - 1), c)

getExtension(pathname) ==
    IF pathname = <<>> \/ endsWithSlash(pathname) THEN <<>>
    ELSE LET clean == SubSeq(pathname, lastIndexOf(pathname, "/") + 1, Len(pathname))
             index == lastIndexOf(clean, ".")
         IN IF index = 0 THEN <<>>
            ELSE toLowerCase(SubSeq(clean, index, Len(clean)))

\* what new URL(raw) throws on
parseable(u) == u.protocol \in {"http:", "https:"}

\* a classifier that accepts the allow-listed extensions only
knownHtmlOnly(raw) ==
    parseable(raw) /\ getExtension(toLowerCase(raw.pathname)) \in HTML_EXTENSIONS

isLikelyHtmlPage(raw) ==
    IF ~parseable(raw) THEN FALSE
    ELSE LET ext == getExtension(toLowerCase(raw.pathname))
         IN IF ext \in HTML_EXTENSIONS THEN TRUE
            ELSE IF ext \in NON_HTML_EXTENSIONS THEN FALSE
            ELSE TRUE

\* an href is a reference: protocol "" is a path-absolute reference ("/a#f"),
\* BadScheme is a string new URL(href, base) throws on
BadScheme == "bad:"
NoUrl == Url("", "", "", <<>>, <<>>, NoFragment)

\* new URL(href, base).toString(), or null (NoUrl) when it throws
toAbsoluteUrl(base, href) ==
    IF href.protocol = BadScheme THEN NoUrl
    ELSE IF href.protocol = ""
    THEN [href EXCEPT !.protocol = base.protocol, !.hostname = base.hostname,
                      !.port = base.port]
    ELSE href

----------------------------------------------------------------------------
(* crawler/crawl.ts: crawlSite and crawlPage *)

BaseUrl == Url("https:", "example.com", "", <<"/">>, <<>>, NoFragment)
Page(pathname) == [BaseUrl EXCEPT !.pathname = pathname]
\* an href written as a path-absolute reference
Ref(pathname, hash) == Url("", "", "", pathname, <<>>, hash)

PageA == Page(<<"/", "a">>)
PageASlash == Page(<<"/", "a", "/">>)
PageB == Page(<<"/", "b">>)
PageC == Page(<<"/", "c">>)

\* the pages of the site a crawl can navigate to
CrawlPages == { BaseUrl, PageA, PageASlash, PageB, PageC }

\* anchors of a page: one target many times and in several spellings, then another page
LinksDup ==
    << Ref(<<"/", "a">>, NoFragment), Ref(<<"/", "a">>, NoFragment),
       Ref(<<"/", "a", "/">>, NoFragment), Ref(<<"/", "a">>, "f"),
       Ref(<<"/", "b">>, NoFragment) >>
\* anchors of a page: two pages, a document, another host, an href that does not parse
LinksMixed ==
    << Ref(<<"/", "b">>, NoFragment), Ref(<<"/", "c">>, NoFragment),
       Ref(<<"/", "f", ".", "p", "d", "f">>, NoFragment),
       Url("https:", "other.com", "", <<"/", "a">>, <<>>, NoFragment),
       Url(BadScheme, "", "", <<>>, <<>>, NoFragment) >>
\* anchors of a page: a page, the way back to the root, a path ending in two slashes
LinksBack ==
    << Ref(<<"/", "c">>, NoFragment), Ref(<<"/">>, NoFragment),
       Ref(<<"/", "a", "/", "/">>, NoFragment) >>

LinkLists == { <<>>, LinksDup, LinksMixed, LinksBack }

Sites ==
    { [p \in CrawlPages |->
          CASE p = BaseUrl -> r [] p = PageA -> a [] p = PageB -> b
            [] p = PageC -> LinksBack [] OTHER -> LinksMixed] :
      r \in LinkLists, a \in LinkLists, b \in { <<>>, LinksBack } }

\* each URL of a list through normalizeUrl (robots.ts line 32, cli line 48)
RECURSIVE normalizeAll(_)
normalizeAll(urls) ==
    IF urls = <<>> THEN <<>> ELSE <<normalizeUrl(Head(urls))>> \o normalizeAll(Tail(urls))

\* a robots.txt body: the Disallow prefixes of the '*' group and the values of
\* the Sitemap lines, as written
RobotsBody(disallow, sitemaps) ==
    [present |-> TRUE, disallow |-> disallow, sitemaps |-> sitemaps]

\* fetchRobots returned null
NoBody == [present |-> FALSE, disallow |-> {}, sitemaps |-> <<>>]

GoodBodies ==
    { RobotsBody({},
          << Url("https:", "example.com", "", <<"/", "s", "m", "1", ".", "x", "m", "l">>,
                 <<>>, NoFragment) >>),
      RobotsBody({ <<"/">> }, <<>>),
      RobotsBody({ <<"/", "b">> },
          << Url("https:", "example.com", "", <<"/", "s", "m", "2", ".", "x", "m", "l">>,
                 <<>>, "f"),
             Url("https:", "example.com", "", <<"/", "s", "m", "2", ".", "x", "m", "l">>,
                 <<>>, NoFragment) >>) }

\* bodies with a Sitemap line that is not an absolute URL: "Sitemap: /sm1.xml"
\* and a value new URL() cannot parse at all
BadBodies ==
    { RobotsBody({}, << Ref(<<"/", "s", "m", "1", ".", "x", "m", "l">>, NoFragment) >>),
      RobotsBody({ <<"/", "b">> },
          << Url("https:", "example.com", "", <<"/", "s", "m", "1", ".", "x", "m", "l">>,
                 <<>>, NoFragment),
             Url(BadScheme, "", "", <<>>, <<>>, NoFragment) >>) }

\* how axios.get settles: a rejection (network error, timeout) or a response
RobotsOutcome(kind, status, body) == [kind |-> kind, status |-> status, body |-> body]
RobotsOutcomes ==
    { RobotsOutcome(k, 0, NoBody) : k \in {"network error", "timeout"} }
    \cup { RobotsOutcome("response", st, b) :
             st \in {200, 301, 404, 500}, b \in GoodBodies \cup BadBodies }

\* a fetch that takes the body of any response
fetchRobotsAnyStatus(outcome) ==
    IF outcome.kind = "response" THEN outcome.body ELSE NoBody

\* robots.ts lines 6-24
fetchRobots(outcome) ==
    IF outcome.kind = "response" /\ outcome.status >= 200 /\ outcome.status < 300
    THEN outcome.body
    ELSE NoBody

\* robots.ts line 32: normalizeUrl throws on a Sitemap value new URL() rejects
parseRobotsThrows(fetched) ==
    fetched # NoBody /\ \E i \in 1..Len(fetched.sitemaps) : ~parseable(fetched.sitemaps[i])

\* robots.ts lines 28-33
parseRobots(fetched) ==
    IF fetched = NoBody
    THEN [fetched |-> FALSE, disallow |-> {}, sitemaps |-> <<>>]
    ELSE [fetched |-> TRUE, disallow |-> fetched.disallow,
          sitemaps |-> normalizeAll(fetched.sitemaps)]

\* the policies parseRobots returns: fetched = FALSE is the permissive default
\* (line 28); otherwise the Disallow path prefixes of the '*' group
RobotsPolicies == { parseRobots(f) : f \in {NoBody} \cup GoodBodies }

isPrefix(pre, str) == Len(pre) <= Len(str) /\ SubSeq(str, 1, Len(pre)) = pre

\* a policy that is never consulted
robotsIgnored(robots, url) == TRUE

\* robots.allows(url): parser.isAllowed(url, '*') ?? true
robotsAllows(robots, url) ==
    IF ~robots.fetched THEN TRUE
    ELSE \A pre \in robots.disallow : ~isPrefix(pre, url.pathname)

InSeq(x, seq) == \E i \in 1..Len(seq) : seq[i] = x

\* an array in place of the Set: every add appends
appendAlways(seq, x) == Append(seq, x)

\* Set.prototype.add: appended unless present
SetAdd(seq, x) == IF InSeq(x, seq) THEN seq ELSE Append(seq, x)

Task(url, depth, st) == [url |-> url, depth |-> depth, st |-> st]

\* candidates that are not compared with the page they were found on
RECURSIVE candidatesAnyHost(_, _)
candidatesAnyHost(url, anchors) ==
    IF anchors = <<>> THEN <<>>
    ELSE LET abs == toAbsoluteUrl(url, Head(anchors))
             u == normalizeUrl(abs)
             keep == abs # NoUrl /\ isLikelyHtmlPage(u)
         IN (IF keep THEN <<u>> ELSE <<>>) \o candidatesAnyHost(url, Tail(anchors))

\* lines 65-70: the anchors of a page as candidate URLs
RECURSIVE candidates(_, _)
candidates(url, anchors) ==
    IF anchors = <<>> THEN <<>>
    ELSE LET abs == toAbsoluteUrl(url, Head(anchors))
             u == normalizeUrl(abs)
             keep == abs # NoUrl /\ isSameHost(url, u) /\ isLikelyHtmlPage(u)
         IN (IF keep THEN <<u>> ELSE <<>>) \o candidates(url, Tail(anchors))

\* a loop that puts the new tasks at the front of the queue
RECURSIVE unshiftAll(_, _, _, _)
unshiftAll(queue, cands, depth, visited) ==
    IF cands = <<>> THEN queue
    ELSE unshiftAll(IF InSeq(Head(cands), visited) THEN queue
                    ELSE <<[url |-> Head(cands), depth |-> depth + 1]>> \o queue,
                    Tail(cands), depth, visited)

\* lines 73-75: for (const next of candidates) if (!visited.has(next)) queue.push(...)
RECURSIVE pushAll(_, _, _, _)
pushAll(queue, cands, depth, visited) ==
    IF cands = <<>> THEN queue
    ELSE pushAll(IF InSeq(Head(cands), visited) THEN queue
                 ELSE Append(queue, [url |-> Head(cands), depth |-> depth + 1]),
                 Tail(cands), depth, visited)

\* line 23
startUrl == normalizeUrl(c_opts.baseUrl)

CrawlIdle ==
    /\ c_opts = [baseUrl |-> BaseUrl, maxPages |-> 0, maxDepth |-> 0, concurrency |-> 1,
                 respectRobots |-> FALSE]
    /\ c_site = [p \in CrawlPages |-> <<>>]
    /\ c_robots = [fetched |-> FALSE, disallow |-> {}, sitemaps |-> <<>>]
    /\ c_pc = "idle"
    /\ c_visited = <<>> /\ c_queue = <<>> /\ c_batch = <<>> /\ c_gotos = <<>>
    /\ c_created = 0 /\ c_consumed = 0 /\ c_failed = FALSE /\ c_contexts = {}

\* lines 23-31: the state when the while loop is first reached
CrawlStart ==
    /\ c_pc = "loop"
    /\ c_visited = <<>>
    /\ c_queue = << [url |-> startUrl, depth |-> 0] >>
    /\ c_batch = <<>>
    /\ c_gotos = <<>>
    /\ c_created = 1 /\ c_consumed = 0 /\ c_failed = FALSE /\ c_contexts = {}

CrawlInit ==
    /\ c_opts \in [baseUrl : {BaseUrl}, maxPages : 0..MaxPagesBound, maxDepth : 0..MaxDepthBound,
                   concurrency : 1..MaxConcurrency, respectRobots : BOOLEAN]
    /\ c_site \in Sites
    /\ c_robots \in RobotsPolicies
    /\ CrawlStart

\* a visited check that never finds anything
neverVisited(url) == FALSE

\* line 47: visited.has(url)
alreadyVisited(url) == InSeq(url, c_visited)

\* a budget test that lets one page too many through
budgetExceededOnly == Len(c_visited) > c_opts.maxPages

\* line 50: visited.size >= opts.maxPages
budgetExhausted == Len(c_visited) >= c_opts.maxPages

\* a depth test that lets one level too many through
depthExceededOnly(depth) == depth > c_opts.maxDepth

\* line 52: depth >= opts.maxDepth
depthReached(depth) == depth >= c_opts.maxDepth

\* a loop that takes its batch with slice: the tasks stay on the queue
DispatchKeepsQueue ==
    /\ c_pc = "loop"
    /\ Len(c_queue) > 0 /\ Len(c_visited) < c_opts.maxPages
    /\ LET n == IF Len(c_queue) < c_opts.concurrency THEN Len(c_queue)
                ELSE c_opts.concurrency
       IN c_batch' = [i \in 1..n |-> Task(c_queue[i].url, c_queue[i].depth, "new")]
    /\ c_pc' = "batch"
    /\ UNCHANGED <<c_contexts, c_opts, c_site, c_robots, c_visited, c_queue, c_gotos, c_created,
                   c_consumed, c_failed>>
    /\ UNCHANGED nonCrawlVars

\* line 33: while (queue.length && visited.size < opts.maxPages), line 34: the splice
Dispatch ==
    /\ c_pc = "loop"
    /\ Len(c_queue) > 0 /\ Len(c_visited) < c_opts.maxPages
    /\ LET n == IF Len(c_queue) < c_opts.concurrency THEN Len(c_queue)
                ELSE c_opts.concurrency
       IN /\ c_batch' = [i \in 1..n |-> Task(c_queue[i].url, c_queue[i].depth, "new")]
          /\ c_queue' = SubSeq(c_queue, n + 1, Len(c_queue))
    /\ c_pc' = "batch"
    /\ UNCHANGED <<c_contexts, c_opts, c_site, c_robots, c_visited, c_gotos,
                   c_created, c_consumed, c_failed>>
    /\ UNCHANGED nonCrawlVars

\* line 33 false, lines 41-44: browser.close(), return Array.from(visited)
Return ==
    /\ c_pc = "loop"
    /\ ~(Len(c_queue) > 0 /\ Len(c_visited) < c_opts.maxPages)
    /\ c_pc' = "returned"
    /\ c_contexts' = {}
    /\ UNCHANGED <<c_opts, c_site, c_robots, c_visited, c_queue, c_batch, c_gotos,
                   c_created, c_consumed, c_failed>>
    /\ UNCHANGED nonCrawlVars

\* the limiter starts the tasks of a batch in order; every task runs its synchronous
\* prefix (lines 47-52) before any await of the batch resolves
mayEnter(i) ==
    /\ c_pc \in {"batch", "closing", "threw"}
    /\ i \in 1..Len(c_batch)
    /\ c_batch[i].st = "new"
    /\ \A j \in 1..(i - 1) : c_batch[j].st # "new"

allEntered == \A j \in 1..Len(c_batch) : c_batch[j].st # "new"

\* lines 47-52, one step: no await between the checks and visited.add
Enter(i) ==
    /\ mayEnter(i)
    /\ LET t == c_batch[i]
       IN IF \/ alreadyVisited(t.url)
             \/ ~isLikelyHtmlPage(t.url)
             \/ (c_opts.respectRobots /\ ~robotsAllows(c_robots, t.url))
             \/ budgetExhausted
          THEN /\ c_batch' = [c_batch EXCEPT ![i].st = "done"]
               /\ UNCHANGED c_visited
          ELSE /\ c_visited' = SetAdd(c_visited, t.url)
               /\ c_batch' = [c_batch EXCEPT ![i].st =
                                 IF depthReached(t.depth) THEN "done" ELSE "opening"]
    /\ c_consumed' = c_consumed + 1
    /\ UNCHANGED <<c_contexts, c_opts, c_site, c_robots, c_pc, c_queue, c_gotos, c_created, c_failed>>
    /\ UNCHANGED nonCrawlVars

\* lines 54-61: newContext, newPage and addInitScript resolve and page.goto is issued;
\* newContext resolves only while the browser is not closed
Open(i) ==
    /\ c_pc \in {"batch", "closing"} /\ allEntered
    /\ i \in 1..Len(c_batch) /\ c_batch[i].st = "opening"
    /\ c_batch' = [c_batch EXCEPT ![i].st = "fetching"]
    /\ c_contexts' = c_contexts \cup {i}
    /\ c_gotos' = Append(c_gotos, [url |-> c_batch[i].url, depth |-> c_batch[i].depth])
    /\ UNCHANGED <<c_opts, c_site, c_robots, c_pc, c_visited, c_queue, c_created, c_consumed, c_failed>>
    /\ UNCHANGED nonCrawlVars

\* lines 54-55 are outside the try: a rejected newContext (no context exists) or
\* newPage (the context exists and crawlPage does not close it) rejects crawlPage;
\* Promise.all (line 35) rejects and crawlSite enters its finally (line 42)
OpenFail(i) ==
    /\ c_pc \in {"batch", "closing", "threw"} /\ allEntered
    /\ i \in 1..Len(c_batch) /\ c_batch[i].st = "opening"
    /\ c_batch' = [c_batch EXCEPT ![i].st = "rejected"]
    /\ \E created \in BOOLEAN :
          /\ created => c_pc # "threw"
          /\ c_contexts' = IF created THEN c_contexts \cup {i} ELSE c_contexts
    /\ c_pc' = IF c_pc = "batch" THEN "closing" ELSE c_pc
    /\ UNCHANGED <<c_opts, c_site, c_robots, c_visited, c_queue, c_gotos,
                   c_created, c_consumed, c_failed>>
    /\ UNCHANGED nonCrawlVars

\* lines 61-75 and 78-80: goto and $$eval resolve, the candidates are pushed and
\* the context is closed
FetchOk(i) ==
    /\ c_pc \in {"batch", "closing"}
    /\ i \in 1..Len(c_batch) /\ c_batch[i].st = "fetching"
    /\ LET t == c_batch[i]
       IN c_queue' = pushAll(c_queue, candidates(t.url, c_site[t.url]), t.depth, c_visited)
    /\ c_created' = c_created + (Len(c_queue') - Len(c_queue))
    /\ c_batch' = [c_batch EXCEPT ![i].st = "done"]
    /\ c_contexts' = c_contexts \ {i}
    /\ UNCHANGED <<c_opts, c_site, c_robots, c_pc, c_visited, c_gotos, c_consumed, c_failed>>
    /\ UNCHANGED nonCrawlVars

\* a catch without the finally: the context of a failed page stays open
FetchFailKeepsContext(i) ==
    /\ c_pc \in {"batch", "closing", "threw"}
    /\ i \in 1..Len(c_batch) /\ c_batch[i].st = "fetching"
    /\ c_batch' = [c_batch EXCEPT ![i].st = "done"]
    /\ c_failed' = TRUE
    /\ UNCHANGED <<c_contexts, c_opts, c_site, c_robots, c_pc, c_visited, c_queue, c_gotos,
                   c_created, c_consumed>>
    /\ UNCHANGED nonCrawlVars

\* lines 76-80: goto or $$eval rejects (always so once the browser is closed); the
\* error is ignored and the context is closed
FetchFail(i) ==
    /\ c_pc \in {"batch", "closing", "threw"}
    /\ i \in 1..Len(c_batch) /\ c_batch[i].st = "fetching"
    /\ c_batch' = [c_batch EXCEPT ![i].st = "done"]
    /\ c_failed' = TRUE
    /\ c_contexts' = c_contexts \ {i}
    /\ UNCHANGED <<c_opts, c_site, c_robots, c_pc, c_visited, c_queue, c_gotos, c_created,
                   c_consumed>>
    /\ UNCHANGED nonCrawlVars

\* lines 41-43 after a rejection: browser.close() resolves, which closes every
\* context of the browser, and crawlSite throws
CloseBrowser ==
    /\ c_pc = "closing"
    /\ c_contexts' = {}
    /\ c_pc' = "threw"
    /\ UNCHANGED <<c_opts, c_site, c_robots, c_visited, c_queue, c_batch, c_gotos,
                   c_created, c_consumed, c_failed>>
    /\ UNCHANGED nonCrawlVars

\* an await that resumes when the first task of the batch has finished
BatchDoneOnFirst ==
    /\ c_pc = "batch"
    /\ \E j \in 1..Len(c_batch) : c_batch[j].st = "done"
    /\ c_pc' = "sleep"
    /\ UNCHANGED <<c_contexts, c_opts, c_site, c_robots, c_visited, c_queue, c_batch, c_gotos,
                   c_created, c_consumed, c_failed>>
    /\ UNCHANGED nonCrawlVars

\* line 35: Promise.all resolves once every task of the batch has finished
BatchDone ==
    /\ c_pc = "batch"
    /\ \A j \in 1..Len(c_batch) : c_batch[j].st = "done"
    /\ c_pc' = "sleep"
    /\ c_batch' = <<>>
    /\ UNCHANGED <<c_contexts, c_opts, c_site, c_robots, c_visited, c_queue, c_gotos,
                   c_created, c_consumed, c_failed>>
    /\ UNCHANGED nonCrawlVars

\* line 37: await sleep(1000)
Pause ==
    /\ c_pc = "sleep"
    /\ c_pc' = "loop"
    /\ UNCHANGED <<c_contexts, c_opts, c_site, c_robots, c_visited, c_queue, c_batch, c_gotos,
                   c_created, c_consumed, c_failed>>
    /\ UNCHANGED nonCrawlVars

CrawlStep ==
    \/ Dispatch
    \/ Return
    \/ \E i \in 1..MaxConcurrency : Enter(i)
    \/ \E i \in 1..MaxConcurrency : Open(i)
    \/ \E i \in 1..MaxConcurrency : OpenFail(i)
    \/ \E i \in 1..MaxConcurrency : FetchOk(i)
    \/ \E i \in 1..MaxConcurrency : FetchFail(i)
    \/ BatchDone
    \/ Pause
    \/ CloseBrowser

----------------------------------------------------------------------------
(* sitemap/fetchSitemap.ts: fetchXml *)

\* line 22
maxAttempts == 4

\* Date.now() when the harvest starts
StartTime == 100000

\* null, as returned by parseRetryAfterMs
NoDelay == -1

Max(a, b) == IF a > b THEN a ELSE b
Min(a, b) == IF a < b THEN a ELSE b

RECURSIVE pow2(_)
pow2(n) == IF n = 0 THEN 1 ELSE 2 * pow2(n - 1)

\* the Retry-After header: absent, a number of seconds, an HTTP date (its time in ms),
\* or a string that is neither
RetryAfter(kind, value) == [kind |-> kind, value |-> value]
RaAbsent == RetryAfter("absent", 0)

RetryAfters ==
    { RaAbsent, RetryAfter("number", -1), RetryAfter("number", 0),
      RetryAfter("number", 2), RetryAfter("number", 40),
      RetryAfter("date", StartTime - 5000), RetryAfter("date", StartTime + 5000),
      RetryAfter("garbage", 0) }

\* lines 9-19
parseRetryAfterMs(retryAfter, now) ==
    IF retryAfter.kind = "absent" THEN NoDelay
    ELSE IF retryAfter.kind = "number" THEN Max(0, retryAfter.value * 1000)
    ELSE IF retryAfter.kind = "date"
         THEN (IF retryAfter.value - now > 0 THEN retryAfter.value - now ELSE 0)
    ELSE NoDelay

\* a backoff that counts the attempts from 0
backoffFromZero(attempt) == Min(30000, 1000 * pow2(attempt - 1))

\* lines 52 and 65: Math.min(30000, 1000 * Math.pow(2, attempt))
exponentialBackoffMs(attempt) == Min(30000, 1000 * pow2(attempt))

\* a delay that never looks at the header
backoffIgnoringHeader(retryAfter, attempt, now) == exponentialBackoffMs(attempt)

\* lines 51-52: retryAfterMs ?? exponential
retryBackoffMs(retryAfter, attempt, now) ==
    LET retryAfterMs == parseRetryAfterMs(retryAfter, now)
    IN IF retryAfterMs # NoDelay THEN retryAfterMs ELSE exponentialBackoffMs(attempt)

\* a loop that allows one attempt more
withinAttemptsAndOne(attempt) == attempt <= maxAttempts + 1

\* line 24: attempt <= maxAttempts
withinAttempts(attempt) == attempt <= maxAttempts

\* what axios.get resolves to; status 0 stands for a rejected request (network
\* error, timeout).  looksXml and isXmlType are the two tests of lines 41-42.
Response(status, looksXml, isXmlType, retryAfter) ==
    [status |-> status, looksXml |-> looksXml, isXmlType |-> isXmlType,
     retryAfter |-> retryAfter]

NoResponse == Response(-1, FALSE, FALSE, RaAbsent)

OkResponses == { Response(200, TRUE, TRUE, RaAbsent) }
DownResponses == { Response(500, FALSE, FALSE, RaAbsent) }
AnyResponses ==
    { Response(200, x, t, RaAbsent) : x \in BOOLEAN, t \in BOOLEAN }
    \cup { Response(st, TRUE, TRUE, RaAbsent) : st \in {199, 299, 300} }
    \cup { Response(st, FALSE, FALSE, RaAbsent) : st \in {0, 404, 500} }
    \cup { Response(503, FALSE, FALSE, ra) : ra \in RetryAfters }
    \cup { Response(429, FALSE, FALSE, ra) : ra \in { RaAbsent, RetryAfter("number", 2) } }

responsesOf(server) ==
    CASE server = "ok" -> OkResponses
      [] server = "down" -> DownResponses
      [] OTHER -> AnyResponses

\* a test that takes every 2xx body
acceptedAny2xx(res) == res.status >= 200 /\ res.status < 300

\* lines 37-46: 2xx and (looksXml or isXmlType)
accepted(res) ==
    res.status >= 200 /\ res.status < 300 /\ (res.looksXml \/ res.isXmlType)

----------------------------------------------------------------------------
(* sitemap/fetchSitemap.ts: parseSitemapUrls *)

LocalBase == Url("http:", "localhost", "3000", <<"/">>, <<>>, NoFragment)

\* a sitemap document: the <loc> texts under urlset and under sitemapindex
Doc(wellFormed, urlset, sitemaps) ==
    [wellFormed |-> wellFormed, urlset |-> urlset, sitemaps |-> sitemaps]

PathSitemap == <<"/", "s", "i", "t", "e", "m", "a", "p", ".", "x", "m", "l">>
PathSm1 == <<"/", "s", "m", "1", ".", "x", "m", "l">>
PathSm2 == <<"/", "s", "m", "2", ".", "x", "m", "l">>
SitemapPaths == { PathSitemap, PathSm1, PathSm2 }

Abs(pathname) == Url("https:", "example.com", "", pathname, <<>>, NoFragment)
BadLoc == Url(BadScheme, "", "", <<>>, <<>>, NoFragment)

UrlsetABC ==
    Doc(TRUE, << Ref(<<"/", "a">>, NoFragment), Ref(<<"/", "b">>, NoFragment),
                 Ref(<<"/", "c">>, NoFragment) >>, <<>>)
\* overlaps UrlsetABC, in other spellings and as absolute URLs
UrlsetOverlap ==
    Doc(TRUE, << Abs(<<"/", "b">>), Ref(<<"/", "d">>, NoFragment),
                 Ref(<<"/", "a">>, "f"), Ref(<<"/", "d", "/">>, NoFragment) >>, <<>>)
\* a path ending in two slashes, another host, a loc that does not parse, a document
UrlsetOdd ==
    Doc(TRUE, << Ref(<<"/", "a", "/", "/">>, NoFragment),
                 Url("https:", "other.com", "", <<"/", "a">>, <<>>, NoFragment),
                 BadLoc, Ref(<<"/", "f", ".", "p", "d", "f">>, NoFragment) >>, <<>>)
Malformed == Doc(FALSE, <<>>, <<>>)
IndexBoth == Doc(TRUE, <<>>, << Ref(PathSm1, NoFragment), Abs(PathSm2) >>)
\* one child twice and a loc that does not parse
IndexRepeat ==
    Doc(TRUE, <<>>, << Ref(PathSm1, NoFragment), BadLoc, Ref(PathSm2, NoFragment),
                       Ref(PathSm1, NoFragment) >>)
\* both a urlset and a sitemapindex
UrlsetAndIndex ==
    Doc(TRUE, << Ref(<<"/", "a">>, NoFragment) >>, << Ref(PathSm1, NoFragment) >>)
IndexSm2 == Doc(TRUE, <<>>, << Ref(PathSm2, NoFragment) >>)

RootDocs == { IndexBoth, IndexRepeat, UrlsetAndIndex, UrlsetABC }
Sm1Docs == { UrlsetABC, UrlsetOverlap, UrlsetOdd, Malformed, IndexSm2 }
Sm2Docs == { UrlsetABC, UrlsetOverlap, UrlsetOdd, Malformed }

Webs ==
    { [p \in SitemapPaths |->
          CASE p = PathSitemap -> r [] p = PathSm1 -> c1 [] OTHER -> c2] :
      r \in RootDocs, c1 \in Sm1Docs, c2 \in Sm2Docs }

sameOrigin(a, b) ==
    a.protocol = b.protocol /\ a.hostname = b.hostname /\ a.port = b.port

\* how the server answers a request for url
serverOf(url) ==
    IF sameOrigin(url, h_base) /\ url.pathname \in SitemapPaths
    THEN h_servers[url.pathname] ELSE "down"

\* the port a scheme implies; url.port is "" for it
defaultPort(protocol) == IF protocol = "https:" THEN "443" ELSE "80"

\* lines 100-111. u.protocol = baseUrl.protocol drops a port that is the new
\* scheme's default; u.host = baseUrl.host sets the port only when baseUrl.host
\* names one, i.e. when the base's port is not its scheme's default (WHATWG URL,
\* host setter), and otherwise leaves the port of u in place
rewriteToBaseOriginIfLocal(base, absoluteUrl) ==
    IF ~isLocal(base.hostname) THEN absoluteUrl
    ELSE [absoluteUrl EXCEPT
             !.protocol = base.protocol,
             !.hostname = base.hostname,
             !.port = IF base.port # "" THEN base.port
                      ELSE IF absoluteUrl.port = defaultPort(base.protocol) THEN ""
                      ELSE absoluteUrl.port]

\* lines 113-133: the urlset entries kept, added to the Set `urls`
RECURSIVE addLocs(_, _, _)
addLocs(urls, base, locs) ==
    IF locs = <<>> THEN urls
    ELSE LET absolute == toAbsoluteUrl(base, Head(locs))
             normalized == normalizeUrl(rewriteToBaseOriginIfLocal(base, absolute))
         IN addLocs(IF absolute # NoUrl /\ isSameHost(base, normalized)
                    THEN SetAdd(urls, normalized) ELSE urls,
                    base, Tail(locs))

\* line 147: for (const u of nested) urls.add(u)
RECURSIVE addAll(_, _)
addAll(urls, nested) ==
    IF nested = <<>> THEN urls ELSE addAll(SetAdd(urls, Head(nested)), Tail(nested))

\* one parseSitemapUrls call: stage "fetch" (in fetchXml), "nested" (in the loop of
\* lines 137-149, at item idx) or "return" (about to return urls)
Frame(url, stage, urls, idx) == [url |-> url, stage |-> stage, urls |-> urls, idx |-> idx]

Top == h_stack[Len(h_stack)]
setTop(frame) == [h_stack EXCEPT ![Len(h_stack)] = frame]

FetchIdle ==
    /\ f_pc = "idle" /\ f_attempt = 0 /\ f_lastError = FALSE
    /\ f_requests = 0 /\ f_sleeps = 0 /\ f_delay = 0
    /\ f_last = [res |-> NoResponse, at |-> 0]
    /\ f_now = 0

HarvestIdle ==
    /\ h_pc = "idle"
    /\ h_base = NoUrl
    /\ h_web = [p \in SitemapPaths |-> Malformed]
    /\ h_servers = [p \in SitemapPaths |-> "down"]
    /\ h_stack = <<>>
    /\ h_result = <<>>
    /\ FetchIdle

\* lines 22-24: fetchXml entered
FetchStart ==
    /\ f_pc = "get" /\ f_attempt = 1 /\ f_lastError = FALSE
    /\ f_requests = 0 /\ f_sleeps = 0 /\ f_delay = 0
    /\ f_last = [res |-> NoResponse, at |-> 0]

\* parseSitemapUrls(sitemapUrl, base) called: lines 76-81
HarvestStart(sitemapUrl) ==
    /\ h_pc = "running"
    /\ h_stack = << Frame(sitemapUrl, "fetch", <<>>, 0) >>
    /\ h_result = <<>>
    /\ FetchStart
    /\ f_now = StartTime

\* lines 26-70: axios.get settles and fetchXml reacts
Attempt ==
    /\ h_pc = "running" /\ f_pc = "get"
    /\ \E res \in responsesOf(serverOf(Top.url)) :
        /\ f_last' = [res |-> res, at |-> f_now]
        /\ IF accepted(res)
           THEN \* line 46: return body
                /\ f_pc' = "returned"
                /\ UNCHANGED <<f_lastError, f_sleeps, f_delay, f_attempt>>
           ELSE IF res.status \in {429, 503}
           THEN \* lines 50-56
                /\ f_delay' = retryBackoffMs(res.retryAfter, f_attempt, f_now)
                /\ f_sleeps' = f_sleeps + 1
                /\ f_pc' = "sleep"
                /\ UNCHANGED <<f_lastError, f_attempt>>
           ELSE \* lines 44, 60 or a rejected request: caught at line 61
                /\ f_lastError' = TRUE
                /\ IF f_attempt < maxAttempts
                   THEN /\ f_delay' = exponentialBackoffMs(f_attempt)
                        /\ f_sleeps' = f_sleeps + 1
                        /\ f_pc' = "sleep"
                        /\ UNCHANGED f_attempt
                   ELSE \* no sleep: attempt++, the loop test, line 73 throws
                        /\ f_attempt' = f_attempt + 1
                        /\ f_pc' = IF withinAttempts(f_attempt + 1) THEN "get" ELSE "threw"
                        /\ UNCHANGED <<f_sleeps, f_delay>>
    /\ f_requests' = f_requests + 1
    /\ UNCHANGED f_now
    /\ UNCHANGED <<h_pc, h_base, h_web, h_servers, h_stack, h_result>>
    /\ UNCHANGED nonHarvestVars

\* lines 55-56 and 68-69: the sleep ends, continue: attempt++ and the loop test
Wake ==
    /\ h_pc = "running" /\ f_pc = "sleep"
    /\ f_now' = f_now + f_delay
    /\ f_attempt' = f_attempt + 1
    /\ f_pc' = IF withinAttempts(f_attempt + 1) THEN "get" ELSE "threw"
    /\ UNCHANGED <<f_lastError, f_requests, f_sleeps, f_delay, f_last>>
    /\ UNCHANGED <<h_pc, h_base, h_web, h_servers, h_stack, h_result>>
    /\ UNCHANGED nonHarvestVars

\* a harvest that lets the error of fetchXml through
SkipRaises ==
    /\ h_pc = "running" /\ Top.stage = "fetch" /\ f_pc = "threw"
    /\ h_pc' = "raised"
    /\ UNCHANGED <<h_stack, h_base, h_web, h_servers, h_result, fetchVars>>
    /\ UNCHANGED nonHarvestVars

\* lines 82-86: fetchXml threw; the sitemap is skipped
Skip ==
    /\ h_pc = "running" /\ Top.stage = "fetch" /\ f_pc = "threw"
    /\ h_stack' = setTop([Top EXCEPT !.stage = "return", !.urls = <<>>])
    /\ UNCHANGED <<h_pc, h_base, h_web, h_servers, h_result, fetchVars>>
    /\ UNCHANGED nonHarvestVars

\* a parser that reads the sitemapindex only when the document has no urlset
ParseUrlsetOrIndex ==
    /\ h_pc = "running" /\ Top.stage = "fetch" /\ f_pc = "returned"
    /\ LET doc == h_web[Top.url.pathname]
       IN IF ~f_last.res.looksXml \/ ~doc.wellFormed
          THEN h_stack' = setTop([Top EXCEPT !.stage = "return", !.urls = <<>>])
          ELSE IF doc.urlset # <<>>
          THEN h_stack' = setTop([Top EXCEPT !.stage = "return",
                                             !.urls = addLocs(<<>>, h_base, doc.urlset)])
          ELSE h_stack' = setTop([Top EXCEPT !.stage = "nested", !.idx = 1, !.urls = <<>>])
    /\ f_pc' = "idle"
    /\ UNCHANGED <<f_attempt, f_lastError, f_requests, f_sleeps, f_delay, f_last, f_now>>
    /\ UNCHANGED <<h_pc, h_base, h_web, h_servers, h_result>>
    /\ UNCHANGED nonHarvestVars

\* lines 87-133: the body is parsed and the urlset entries are collected
Parse ==
    /\ h_pc = "running" /\ Top.stage = "fetch" /\ f_pc = "returned"
    /\ LET doc == h_web[Top.url.pathname]
       IN IF ~f_last.res.looksXml \/ ~doc.wellFormed
          THEN \* invalid XML (line 93), or neither a urlset nor a sitemapindex
               h_stack' = setTop([Top EXCEPT !.stage = "return", !.urls = <<>>])
          ELSE h_stack' = setTop([Top EXCEPT !.stage = "nested", !.idx = 1,
                                             !.urls = addLocs(<<>>, h_base, doc.urlset)])
    /\ f_pc' = "idle"
    /\ UNCHANGED <<f_attempt, f_lastError, f_requests, f_sleeps, f_delay, f_last, f_now>>
    /\ UNCHANGED <<h_pc, h_base, h_web, h_servers, h_result>>
    /\ UNCHANGED nonHarvestVars

\* the sitemap is being harvested by a call on the stack
activeSitemap(url) == \E k \in 1..Len(h_stack) : h_stack[k].url = url

\* a harvester with a cycle guard: a sitemap that is being harvested is not entered again
DescendUnlessActive ==
    /\ h_pc = "running" /\ Top.stage = "nested"
    /\ LET sitemaps == h_web[Top.url.pathname].sitemaps
       IN /\ Top.idx <= Len(sitemaps)
          /\ LET sitemapUrlAbs == toAbsoluteUrl(h_base, sitemaps[Top.idx])
             IN IF \/ sitemapUrlAbs = NoUrl
                   \/ activeSitemap(rewriteToBaseOriginIfLocal(h_base, sitemapUrlAbs))
                THEN /\ h_stack' = setTop([Top EXCEPT !.idx = Top.idx + 1])
                     /\ UNCHANGED fetchVars
                ELSE /\ Len(h_stack) < MaxNesting
                     /\ h_stack' = Append(h_stack,
                            Frame(rewriteToBaseOriginIfLocal(h_base, sitemapUrlAbs),
                                  "fetch", <<>>, 0))
                     /\ f_pc' = "get" /\ f_attempt' = 1 /\ f_lastError' = FALSE
                     /\ f_requests' = 0 /\ f_sleeps' = 0 /\ f_delay' = 0
                     /\ f_last' = [res |-> NoResponse, at |-> 0]
                     /\ UNCHANGED f_now
    /\ UNCHANGED <<h_pc, h_base, h_web, h_servers, h_result>>
    /\ UNCHANGED nonHarvestVars

\* lines 137-146: the next sitemapindex entry; a nested call, or [] for a loc that
\* does not resolve
Descend ==
    /\ h_pc = "running" /\ Top.stage = "nested"
    /\ LET sitemaps == h_web[Top.url.pathname].sitemaps
       IN /\ Top.idx <= Len(sitemaps)
          /\ LET sitemapUrlAbs == toAbsoluteUrl(h_base, sitemaps[Top.idx])
             IN IF sitemapUrlAbs = NoUrl
                THEN /\ h_stack' = setTop([Top EXCEPT !.idx = Top.idx + 1])
                     /\ UNCHANGED fetchVars
                ELSE /\ Len(h_stack) < MaxNesting
                     /\ h_stack' = Append(h_stack,
                            Frame(rewriteToBaseOriginIfLocal(h_base, sitemapUrlAbs),
                                  "fetch", <<>>, 0))
                     /\ f_pc' = "get" /\ f_attempt' = 1 /\ f_lastError' = FALSE
                     /\ f_requests' = 0 /\ f_sleeps' = 0 /\ f_delay' = 0
                     /\ f_last' = [res |-> NoResponse, at |-> 0]
                     /\ UNCHANGED f_now
    /\ UNCHANGED <<h_pc, h_base, h_web, h_servers, h_result>>
    /\ UNCHANGED nonHarvestVars

\* the call is over (line 85, 93 or 155)
returning(frame) ==
    \/ frame.stage = "return"
    \/ frame.stage = "nested" /\ frame.idx > Len(h_web[frame.url.pathname].sitemaps)

\* lines 152-155 and 146-147: a call returns its list; the caller adds it to its Set
Ascend ==
    /\ h_pc = "running" /\ returning(Top)
    /\ IF Len(h_stack) = 1
       THEN /\ h_result' = Top.urls
            /\ h_stack' = <<>>
            /\ h_pc' = "done"
       ELSE LET caller == h_stack[Len(h_stack) - 1]
            IN /\ h_stack' = Append(SubSeq(h_stack, 1, Len(h_stack) - 2),
                                    [caller EXCEPT !.urls = addAll(caller.urls, Top.urls),
                                                   !.idx = caller.idx + 1])
               /\ UNCHANGED <<h_result, h_pc>>
    /\ UNCHANGED <<h_base, h_web, h_servers, fetchVars>>
    /\ UNCHANGED nonHarvestVars

HarvestStep == Attempt \/ Wake \/ Skip \/ Parse \/ Descend \/ Ascend

----------------------------------------------------------------------------
(* sitemap/discover.ts and cli discover *)

\* discover.ts lines 3-9
discoverSitemaps(baseUrl, robots, explicit) ==
    LET defaults == << toAbsoluteUrl(baseUrl, Ref(PathSitemap, NoFragment)) >>
        found == addAll(addAll(<<>>, defaults), robots.sitemaps)
    IN IF explicit # NoUrl THEN SetAdd(found, explicit) ELSE found

\* a result that lists the crawled URLs first
combineCrawlFirst(sitemapUrls, crawled) == addAll(addAll(<<>>, crawled), sitemapUrls)

\* cli line 64: Array.from(new Set([...sitemapUrls, ...crawled]))
combine(sitemapUrls, crawled) == addAll(addAll(<<>>, sitemapUrls), crawled)

DiscoverIdle ==
    /\ d_pc = "idle"
    /\ d_robots = [fetched |-> FALSE, disallow |-> {}, sitemaps |-> <<>>]
    /\ d_explicit = NoUrl
    /\ d_sitemaps = <<>> /\ d_idx = 0
    /\ d_returned = <<>> /\ d_sitemapUrls = <<>> /\ d_combined = <<>>

\* cli line 42
DiscoverSitemaps ==
    /\ d_pc = "start"
    /\ d_sitemaps' = discoverSitemaps(h_base, d_robots, d_explicit)
    /\ d_idx' = 1
    /\ d_pc' = "harvest"
    /\ UNCHANGED <<d_robots, d_explicit, d_returned, d_sitemapUrls, d_combined>>
    /\ UNCHANGED <<callVars, crawlVars, harvestVars>>

\* cli line 47: parseSitemapUrls(sm, base) is called for the next seed
HarvestSeed ==
    /\ d_pc = "harvest" /\ h_pc \in {"idle", "collected"}
    /\ d_idx <= Len(d_sitemaps)
    /\ h_pc' = "running"
    /\ h_stack' = << Frame(d_sitemaps[d_idx], "fetch", <<>>, 0) >>
    /\ h_result' = <<>>
    /\ f_pc' = "get" /\ f_attempt' = 1 /\ f_lastError' = FALSE
    /\ f_requests' = 0 /\ f_sleeps' = 0 /\ f_delay' = 0
    /\ f_last' = [res |-> NoResponse, at |-> 0]
    /\ UNCHANGED <<f_now, h_base, h_web, h_servers>>
    /\ UNCHANGED <<callVars, crawlVars, discoverVars>>

\* cli line 48: urls.forEach((u) => sitemapUrls.add(normalizeUrl(u)))
CollectSeed ==
    /\ d_pc = "harvest" /\ h_pc = "done"
    /\ d_returned' = d_returned \o h_result
    /\ d_sitemapUrls' = addAll(d_sitemapUrls, normalizeAll(h_result))
    /\ d_idx' = d_idx + 1
    /\ h_pc' = "collected"
    /\ UNCHANGED <<d_pc, d_robots, d_explicit, d_sitemaps, d_combined>>
    /\ UNCHANGED <<h_base, h_web, h_servers, h_stack, h_result, fetchVars>>
    /\ UNCHANGED <<callVars, crawlVars>>

\* cli lines 53-62: crawlSite is called; crawl.ts lines 23-31
StartCrawl ==
    /\ d_pc = "harvest" /\ h_pc \in {"idle", "collected"}
    /\ d_idx > Len(d_sitemaps)
    /\ d_pc' = "crawl"
    /\ c_pc' = "loop"
    /\ c_visited' = <<>>
    /\ c_queue' = << [url |-> startUrl, depth |-> 0] >>
    /\ c_batch' = <<>>
    /\ c_gotos' = <<>>
    /\ c_created' = 1 /\ c_consumed' = 0 /\ c_failed' = FALSE
    /\ UNCHANGED <<c_contexts, c_opts, c_site, c_robots>>
    /\ UNCHANGED <<d_robots, d_explicit, d_sitemaps, d_idx, d_returned, d_sitemapUrls,
                   d_combined>>
    /\ UNCHANGED <<callVars, harvestVars>>

\* cli line 64: crawlSite returned, the two lists are combined
Combine ==
    /\ d_pc = "crawl" /\ c_pc = "returned"
    /\ d_combined' = combine(d_sitemapUrls, c_visited)
    /\ d_pc' = "done"
    /\ UNCHANGED <<d_robots, d_explicit, d_sitemaps, d_idx, d_returned, d_sitemapUrls>>
    /\ UNCHANGED <<callVars, crawlVars, harvestVars>>

\* crawlSite rejected (Promise.all, line 35): discover rejects with it
DiscoverFails ==
    /\ d_pc = "crawl" /\ c_pc = "threw"
    /\ d_pc' = "threw"
    /\ UNCHANGED <<d_robots, d_explicit, d_sitemaps, d_idx, d_returned, d_sitemapUrls,
                   d_combined>>
    /\ UNCHANGED <<callVars, crawlVars, harvestVars>>

----------------------------------------------------------------------------
(* normalizeUrl driven on bounded inputs *)

UrlIdle ==
    /\ u_stage = "idle"
    /\ u_raw = NoUrl /\ u_other = NoUrl
    /\ u_once = NoUrl /\ u_twice = NoUrl /\ u_otherOnce = NoUrl

SameHostIdle ==
    /\ s_stage = "idle"
    /\ s_a = NoUrl /\ s_b = NoUrl
    /\ s_same = FALSE

RobotsIdle ==
    /\ r_pc = "idle"
    /\ r_outcome = RobotsOutcome("network error", 0, NoBody)
    /\ r_fetched = NoBody
    /\ r_policy = parseRobots(NoBody)
    /\ r_caller = "crawlSite"
    /\ r_callerPc = "waiting"

ScanIdle ==
    /\ x_pc = "idle"
    /\ x_urls = <<>> /\ x_maxIssues = 0 /\ x_idx = 0
    /\ x_results = <<>> /\ x_total = 0 /\ x_gotos = <<>>

HtmlIdle ==
    /\ l_stage = "idle"
    /\ l_raw = NoUrl /\ l_other = NoUrl
    /\ l_html = FALSE /\ l_otherHtml = FALSE

CallsIdle == UrlIdle /\ SameHostIdle /\ RobotsIdle /\ ScanIdle /\ HtmlIdle

UrlInit ==
    /\ u_stage = "input"
    /\ u_raw \in RawUrls
    /\ u_other \in { [u_raw EXCEPT !.hash = f] : f \in Fragments }
    /\ u_once = NoUrl /\ u_twice = NoUrl /\ u_otherOnce = NoUrl
    /\ CrawlIdle /\ HarvestIdle /\ DiscoverIdle /\ SameHostIdle /\ RobotsIdle /\ ScanIdle
    /\ HtmlIdle

NormalizeOnce ==
    /\ u_stage = "input"
    /\ u_once' = normalizeUrl(u_raw)
    /\ u_otherOnce' = normalizeUrl(u_other)
    /\ u_stage' = "once"
    /\ UNCHANGED <<u_raw, u_other, u_twice>>
    /\ UNCHANGED nonUrlVars

NormalizeTwice ==
    /\ u_stage = "once"
    /\ u_twice' = normalizeUrl(u_once)
    /\ u_stage' = "twice"
    /\ UNCHANGED <<u_raw, u_other, u_once, u_otherOnce>>
    /\ UNCHANGED nonUrlVars

UrlNext == NormalizeOnce \/ NormalizeTwice

SpecUrl == UrlInit /\ [][UrlNext]_vars

\* C9: normalizeUrl is idempotent: normalizing an already normalized URL changes
\* nothing, also for paths ending in several slashes and repeated query keys.
NormalizeIdempotent == u_stage = "twice" => u_twice = u_once

\* C10: the output of normalizeUrl carries no fragment, and two inputs that differ
\* only in their fragment have the same canonical form.
FragmentStripped ==
    u_stage \in {"once", "twice"} =>
        /\ u_once.hash = NoFragment
        /\ u_otherOnce.hash = NoFragment
        /\ u_otherOnce = u_once

\* "http://a.com/x#f" and "http://a.com/x" have both been normalized
FragmentStrippedWitness ==
    /\ u_stage = "once"
    /\ u_raw = Url("http:", "a.com", "", <<"/", "x">>, <<>>, "f")
    /\ u_other = Url("http:", "a.com", "", <<"/", "x">>, <<>>, NoFragment)
    /\ u_once = u_other

----------------------------------------------------------------------------
(* crawlSite on its own *)

SpecCrawlInit == CrawlInit /\ CallsIdle /\ HarvestIdle /\ DiscoverIdle

SpecCrawl == SpecCrawlInit /\ [][CrawlStep]_vars

\* C1: in every state of a crawl the Visited Set holds at most maxPages URLs
\* (so the returned array has at most maxPages elements), whatever the fan-out.
VisitedWithinBudget == Len(c_visited) <= c_opts.maxPages

\* a crawl returned with its budget of 2 used up while links were still queued
VisitedWithinBudgetWitness ==
    /\ c_pc = "returned"
    /\ c_opts.maxPages = 2 /\ c_opts.concurrency = 2
    /\ Len(c_visited) = 2
    /\ Len(c_queue) > 0

\* C2: no URL is the target of page.goto twice in one crawl, however often it was
\* enqueued and however the tasks of a batch interleave; a URL is in the Visited
\* Set before its fetch is issued.
FetchedAtMostOnce ==
    /\ \A i, j \in 1..Len(c_gotos) : i # j => c_gotos[i].url # c_gotos[j].url
    /\ \A i \in 1..Len(c_gotos) : InSeq(c_gotos[i].url, c_visited)

\* two tasks of one batch carried the same URL; one fetches it, the other returned
FetchedAtMostOnceWitness ==
    \E i, j \in 1..Len(c_batch) :
        /\ i # j
        /\ c_batch[i].url = c_batch[j].url
        /\ c_batch[i].st = "fetching"
        /\ c_batch[j].st = "done"
        /\ Len(c_gotos) = 2

\* the URLs the anchors of page u point to, whether or not the crawler keeps them
linkTargets(u) ==
    { normalizeUrl(toAbsoluteUrl(u, c_site[u][k])) :
        k \in { n \in 1..Len(c_site[u]) : toAbsoluteUrl(u, c_site[u][n]) # NoUrl } }

\* the URLs reachable from the seed by a chain of at most k links
RECURSIVE withinHops(_)
withinHops(k) ==
    IF k = 0 THEN { startUrl }
    ELSE LET near == withinHops(k - 1)
         IN near \cup UNION { linkTargets(u) : u \in near \cap CrawlPages }

\* C3: page.goto is only issued by a task of depth < maxDepth, and a URL more than
\* maxDepth links away from the seed is neither fetched nor in the Visited Set.
FetchedBelowMaxDepth ==
    /\ \A i \in 1..Len(c_gotos) : c_gotos[i].depth < c_opts.maxDepth
    /\ \A i \in 1..Len(c_visited) : c_visited[i] \in withinHops(c_opts.maxDepth)

\* maxDepth = 1: /c is two links from the seed (through /a); the crawl returned with
\* budget to spare (robots keeps /b out), /a visited but not fetched, /c not visited
FetchedBelowMaxDepthWitness ==
    /\ c_pc = "returned"
    /\ c_opts.maxDepth = 1 /\ c_opts.maxPages = 3
    /\ PageC \in withinHops(2) \ withinHops(1)
    /\ c_visited = <<startUrl, PageA>>
    /\ \A i \in 1..Len(c_gotos) : c_gotos[i].url = startUrl
    /\ Len(c_gotos) = 1

----------------------------------------------------------------------------
(* fetchXml and parseSitemapUrls on one document, any sequence of responses *)

SpecFetchInit ==
    /\ h_base = BaseUrl
    /\ h_web \in { w \in Webs : w[PathSitemap] = UrlsetABC /\ w[PathSm1] = Malformed
                                 /\ w[PathSm2] = Malformed }
    /\ h_servers = [p \in SitemapPaths |-> IF p = PathSitemap THEN "any" ELSE "down"]
    /\ HarvestStart(Abs(PathSitemap))
    /\ CallsIdle /\ CrawlIdle /\ DiscoverIdle

SpecFetch == SpecFetchInit /\ [][Attempt \/ Wake \/ Skip \/ Parse \/ Ascend]_vars

\* C6: whatever the responses, fetchXml issues at most 4 requests for a document; it
\* throws only after 4 failed ones, and parseSitemapUrls then returns the empty list
\* and raises nothing.
AtMostFourAttempts ==
    /\ f_requests <= 4
    /\ h_pc # "raised"
    /\ (f_pc = "threw" => f_requests = 4)
    /\ (h_pc = "done" /\ f_pc = "threw" => h_result = <<>>)

\* all four attempts failed, the last one with a 503, an earlier one with an error
AtMostFourAttemptsWitness ==
    /\ h_pc = "done" /\ f_pc = "threw"
    /\ f_requests = 4
    /\ f_lastError /\ f_last.res.status = 503
    /\ h_result = <<>>

\* C7: after a 429 or 503 whose Retry-After is a number s >= 0 of seconds, the next
\* attempt starts at least s * 1000 ms after that response, and the sleep is the
\* header's value, not the exponential one.
RetryAfterHonoured ==
    LET res == f_last.res
        numeric == /\ res.status \in {429, 503}
                   /\ res.retryAfter.kind = "number"
                   /\ res.retryAfter.value >= 0
    IN /\ (f_pc = "sleep" /\ numeric => f_delay = res.retryAfter.value * 1000)
       /\ (f_pc = "get" /\ f_attempt > 1 /\ numeric =>
              f_now - f_last.at >= res.retryAfter.value * 1000)

\* the second attempt got a 503 with Retry-After: 2; the third starts 2000 ms later
\* (the exponential delay would have been 4000 ms)
RetryAfterHonouredWitness ==
    /\ f_pc = "get" /\ f_attempt = 3
    /\ f_last.res = Response(503, FALSE, FALSE, RetryAfter("number", 2))
    /\ f_now - f_last.at = 2000
    /\ exponentialBackoffMs(2) = 4000

----------------------------------------------------------------------------
(* parseSitemapUrls on a tree of documents, each served or not *)

SpecHarvestInit ==
    /\ h_base \in { BaseUrl, LocalBase }
    /\ h_web \in Webs
    /\ h_servers \in [SitemapPaths -> {"ok", "down"}]
    /\ HarvestStart([h_base EXCEPT !.pathname = PathSitemap])
    /\ CallsIdle /\ CrawlIdle /\ DiscoverIdle

SpecHarvest == SpecHarvestInit /\ [][HarvestStep]_vars

Range(seq) == { seq[i] : i \in 1..Len(seq) }
NoDuplicates(seq) == \A i, j \in 1..Len(seq) : i # j => seq[i] # seq[j]

\* the URLs a urlset keeps: resolved, rewritten, normalized, same host as the base
keptOf(locs) ==
    { u \in { normalizeUrl(rewriteToBaseOriginIfLocal(h_base, toAbsoluteUrl(h_base, loc))) :
                loc \in { l \in Range(locs) : toAbsoluteUrl(h_base, l) # NoUrl } } :
        isSameHost(h_base, u) }

\* whether the document at url is fetched and parsed
served(url) ==
    /\ serverOf(url) = "ok"
    /\ h_web[url.pathname].wellFormed

\* the sitemaps a sitemapindex names, as the URLs requested
childrenOf(sitemaps) ==
    { rewriteToBaseOriginIfLocal(h_base, toAbsoluteUrl(h_base, loc)) :
        loc \in { l \in Range(sitemaps) : toAbsoluteUrl(h_base, l) # NoUrl } }

\* what the document tree under url holds (the trees of the model have no cycle)
RECURSIVE treeUrls(_)
treeUrls(url) ==
    IF ~served(url) THEN {}
    ELSE LET doc == h_web[url.pathname]
         IN keptOf(doc.urlset) \cup UNION { treeUrls(c) : c \in childrenOf(doc.sitemaps) }

rootSitemap == [h_base EXCEPT !.pathname = PathSitemap]

\* C8: harvesting a sitemapindex returns the union of what its child documents
\* keep, and no URL twice, also when the children overlap.
HarvestIsUnion ==
    h_pc = "done" =>
        /\ NoDuplicates(h_result)
        /\ Range(h_result) = treeUrls(rootSitemap)

\* an index of two urlsets that overlap (/a and /b occur in both, /a#f and /d/ in
\* other spellings): the result is a, b, c, d, each once
HarvestIsUnionWitness ==
    /\ h_pc = "done" /\ h_base = BaseUrl
    /\ h_web[PathSitemap] = IndexBoth
    /\ h_web[PathSm1] = UrlsetABC /\ h_web[PathSm2] = UrlsetOverlap
    /\ h_result = << PageA, PageB, PageC, Page(<<"/", "d">>) >>

----------------------------------------------------------------------------
(* discover: harvest of the seed sitemaps, then the crawl, then the union *)

SpecDiscoverInit ==
    /\ d_pc = "start"
    /\ d_robots \in RobotsPolicies
    /\ d_explicit \in { NoUrl, Abs(PathSm1) }
    /\ d_sitemaps = <<>> /\ d_idx = 0
    /\ d_returned = <<>> /\ d_sitemapUrls = <<>> /\ d_combined = <<>>
    /\ h_pc = "idle"
    /\ h_base = BaseUrl
    /\ h_web \in { w \in Webs : /\ w[PathSitemap] \in { UrlsetABC, IndexBoth }
                                 /\ w[PathSm1] \in { UrlsetOverlap, UrlsetOdd, Malformed }
                                 /\ w[PathSm2] = UrlsetABC }
    /\ h_servers \in { sv \in [SitemapPaths -> {"ok", "down"}] :
                         Cardinality({ p \in SitemapPaths : sv[p] = "down" }) <= 1 }
    /\ h_stack = <<>> /\ h_result = <<>>
    /\ f_pc = "idle" /\ f_attempt = 0 /\ f_lastError = FALSE
    /\ f_requests = 0 /\ f_sleeps = 0 /\ f_delay = 0
    /\ f_last = [res |-> NoResponse, at |-> 0]
    /\ f_now = StartTime
    /\ c_opts \in [baseUrl : {BaseUrl}, maxPages : {1, MaxPagesBound}, maxDepth : {1},
                   concurrency : {MaxConcurrency}, respectRobots : BOOLEAN]
    /\ c_site \in { st \in Sites : /\ st[BaseUrl] \in { LinksDup, LinksBack }
                                   /\ st[PageA] = LinksMixed /\ st[PageB] = <<>> }
    /\ c_robots \in RobotsPolicies
    /\ c_pc = "idle"
    /\ c_visited = <<>> /\ c_queue = <<>> /\ c_batch = <<>> /\ c_gotos = <<>>
    /\ c_created = 0 /\ c_consumed = 0 /\ c_failed = FALSE /\ c_contexts = {}
    /\ CallsIdle

DiscoverNext ==
    \/ DiscoverSitemaps
    \/ HarvestSeed
    \/ Attempt \/ Wake \/ Skip \/ Parse \/ Descend \/ Ascend
    \/ CollectSeed
    \/ StartCrawl
    \/ Dispatch
    \/ Return
    \/ \E i \in 1..MaxConcurrency : Enter(i)
    \/ \E i \in 1..MaxConcurrency : Open(i)
    \/ \E i \in 1..MaxConcurrency : OpenFail(i)
    \/ \E i \in 1..MaxConcurrency : FetchOk(i)
    \/ \E i \in 1..MaxConcurrency : FetchFail(i)
    \/ BatchDone
    \/ Pause
    \/ CloseBrowser
    \/ Combine
    \/ DiscoverFails

SpecDiscover == SpecDiscoverInit /\ [][DiscoverNext]_vars

\* the positions of seq that hold the first occurrence of their value
RECURSIVE firstSeen(_)
firstSeen(seq) ==
    IF seq = <<>> THEN <<>>
    ELSE LET front == SubSeq(seq, 1, Len(seq) - 1)
             last == seq[Len(seq)]
         IN IF \E i \in 1..Len(front) : front[i] = last
            THEN firstSeen(front)
            ELSE Append(firstSeen(front), last)

\* robots.txt was fetched, disallows every path, and the crawl respects it
crawlForbidden ==
    c_opts.respectRobots /\ c_robots.fetched /\ <<"/">> \in c_robots.disallow

\* C4: when the crawl respects robots and the policy disallows every crawl
\* path, the crawl visits and fetches nothing and the result of discover is
\* exactly the harvested URLs in harvest order; a sitemap listing /a, /b, /c
\* on the scanned site gives exactly those three, in that order.
RobotsBlockedCrawlAddsNothing ==
    d_pc = "done" /\ crawlForbidden =>
        /\ c_visited = <<>> /\ c_gotos = <<>>
        /\ d_combined = firstSeen(normalizeAll(d_returned))
        /\ (d_sitemaps = << Abs(PathSitemap) >> /\ h_web[PathSitemap] = UrlsetABC
                /\ h_servers[PathSitemap] = "ok"
            => d_combined = << PageA, PageB, PageC >>)

RobotsBlockedCrawlAddsNothingWitness ==
    /\ d_pc = "done" /\ crawlForbidden
    /\ d_sitemaps = << Abs(PathSitemap) >> /\ h_web[PathSitemap] = UrlsetABC
    /\ h_servers[PathSitemap] = "ok"
    /\ d_combined = << PageA, PageB, PageC >>

\* C5: the result of discover lists the harvested URLs first, in first-seen
\* order across the seed sitemaps, then the crawled URLs that the harvest did
\* not yield, in visit order; no URL string occurs twice, and a URL both
\* sources found stands at its harvest position.
HarvestFirstThenCrawl ==
    d_pc = "done" =>
        LET harvested == firstSeen(normalizeAll(d_returned))
            crawledOnly == SelectSeq(c_visited,
                               LAMBDA u : \A i \in 1..Len(harvested) : harvested[i] # u)
        IN /\ d_combined = harvested \o crawledOnly
           /\ NoDuplicates(d_combined)

HarvestFirstThenCrawlWitness ==
    /\ d_pc = "done"
    /\ Len(d_sitemaps) >= 2
    /\ \E i \in 1..Len(c_visited) : \E j \in 1..Len(d_sitemapUrls) :
           c_visited[i] = d_sitemapUrls[j]
    /\ \E i \in 1..Len(c_visited) : \A j \in 1..Len(d_sitemapUrls) :
           c_visited[i] # d_sitemapUrls[j]
    /\ Len(d_returned) > Len(d_sitemapUrls)

----------------------------------------------------------------------------
(* isSameHost driven on bounded inputs *)

\* the URLs isSameHost is tried on: two loopback names, two other hosts, both
\* schemes, the default port and two explicit ports
HostUrls ==
    { Url(pr, h, po, <<"/">>, <<>>, NoFragment) :
        pr \in {"http:", "https:"},
        h \in {"localhost", "127.0.0.1", "a.com", "b.com"},
        po \in {"", "3000", "9999"} }

SameHostInit ==
    /\ s_stage = "input"
    /\ s_a \in HostUrls /\ s_b \in HostUrls
    /\ s_same = FALSE
    /\ UrlIdle /\ RobotsIdle /\ ScanIdle /\ CrawlIdle /\ HarvestIdle /\ DiscoverIdle
    /\ HtmlIdle

SameHost ==
    /\ s_stage = "input"
    /\ s_same' = isSameHost(s_a, s_b)
    /\ s_stage' = "done"
    /\ UNCHANGED <<s_a, s_b>>
    /\ UNCHANGED nonSameHostVars

SpecSameHost == SameHostInit /\ [][SameHost]_vars

loopback(u) == u.hostname \in {"localhost", "127.0.0.1"}

\* C11: isSameHost(a, b) is true whenever both hostnames are loopback names,
\* whatever the schemes and ports; for every other pair it is true exactly when
\* scheme, hostname and port are all identical, so a loopback URL is never
\* same-host with a non-loopback one.
SameHostContract ==
    s_stage = "done" =>
        /\ (loopback(s_a) /\ loopback(s_b) => s_same)
        /\ (~(loopback(s_a) /\ loopback(s_b)) =>
               (s_same <=> /\ s_a.protocol = s_b.protocol
                           /\ s_a.hostname = s_b.hostname
                           /\ s_a.port = s_b.port))
        /\ (loopback(s_a) # loopback(s_b) => ~s_same)

SameHostContractWitness ==
    /\ s_stage = "done"
    /\ s_a = Url("http:", "localhost", "3000", <<"/">>, <<>>, NoFragment)
    /\ s_b = Url("http:", "127.0.0.1", "9999", <<"/">>, <<>>, NoFragment)
    /\ s_same

----------------------------------------------------------------------------
(* parseRobots and the await of its two callers *)

RobotsInit ==
    /\ r_pc = "fetch"
    /\ r_outcome \in RobotsOutcomes
    /\ r_fetched = NoBody
    /\ r_policy = parseRobots(NoBody)
    /\ r_caller \in {"discoverSitemaps", "crawlSite"}
    /\ r_callerPc = "waiting"
    /\ UrlIdle /\ SameHostIdle /\ ScanIdle /\ CrawlIdle /\ HarvestIdle /\ DiscoverIdle
    /\ HtmlIdle

\* robots.ts line 27: fetchRobots settles
FetchRobots ==
    /\ r_pc = "fetch"
    /\ r_fetched' = fetchRobots(r_outcome)
    /\ r_pc' = "parse"
    /\ UNCHANGED <<r_outcome, r_policy, r_caller, r_callerPc>>
    /\ UNCHANGED nonRobotsVars

\* robots.ts lines 28-33: the policy is built, or normalizeUrl throws
ParseRobots ==
    /\ r_pc = "parse"
    /\ IF parseRobotsThrows(r_fetched)
       THEN r_pc' = "threw" /\ UNCHANGED r_policy
       ELSE r_pc' = "returned" /\ r_policy' = parseRobots(r_fetched)
    /\ UNCHANGED <<r_outcome, r_fetched, r_caller, r_callerPc>>
    /\ UNCHANGED nonRobotsVars

\* discover.ts line 5 / crawl.ts line 26: `await parseRobots(...)` yields the policy
CallerResumes ==
    /\ r_pc = "returned" /\ r_callerPc = "waiting"
    /\ r_callerPc' = "resumed"
    /\ UNCHANGED <<r_pc, r_outcome, r_fetched, r_policy, r_caller>>
    /\ UNCHANGED nonRobotsVars

\* discover.ts line 5 / crawl.ts line 26: the await is in no try block, so the
\* caller's promise rejects with what parseRobots threw
CallerRejects ==
    /\ r_pc = "threw" /\ r_callerPc = "waiting"
    /\ r_callerPc' = "rejected"
    /\ UNCHANGED <<r_pc, r_outcome, r_fetched, r_policy, r_caller>>
    /\ UNCHANGED nonRobotsVars

SpecRobots ==
    RobotsInit /\ [][FetchRobots \/ ParseRobots \/ CallerResumes \/ CallerRejects]_vars

\* the fetch ended in a network failure, a timeout or a non-2xx status
fetchFailed ==
    r_outcome.kind # "response" \/ r_outcome.status < 200 \/ r_outcome.status >= 300

\* C12: when the robots.txt fetch ends in a network failure, a timeout or a
\* non-2xx status, parseRobots returns the permissive default: allows(url) is
\* true for every url and the list of sitemap hints is empty.
FailedFetchIsPermissive ==
    fetchFailed /\ r_pc \notin {"fetch", "parse"} =>
        /\ r_pc = "returned"
        /\ r_policy.sitemaps = <<>>
        /\ \A url \in CrawlPages \cup {BaseUrl} : robotsAllows(r_policy, url)

FailedFetchIsPermissiveWitness ==
    /\ r_pc = "returned"
    /\ r_outcome.kind = "response" /\ r_outcome.status = 404
    /\ <<"/">> \in r_outcome.body.disallow
    /\ robotsAllows(r_policy, PageA)

\* C13: robots resolution never fails discovery: whatever the robots.txt fetch
\* yields, also a 2xx body whose Sitemap lines are not absolute URLs,
\* parseRobots returns a policy and neither discoverSitemaps nor crawlSite
\* ends with an error because of it.
RobotsNeverFailsCaller == r_pc # "threw" /\ r_callerPc # "rejected"

----------------------------------------------------------------------------
(* discover when some sitemap document fails *)

\* what the seeds up to the n-th hold in the documents that succeeded
seedUrls(n) == UNION { treeUrls(d_sitemaps[i]) : i \in 1..n }

----------------------------------------------------------------------------
(* crawlSite: failures and skipped tasks *)

\* C15: a failure while one crawl task is processed (context or page creation,
\* navigation, timeout, link extraction) is isolated: crawlSite does not end
\* with an error, the URL of the failed task stays in the Visited Set, and the
\* failed task enqueues nothing.
TaskFailureIsolated ==
    /\ c_pc # "threw"
    /\ \A i \in 1..Len(c_batch) :
          c_batch[i].st = "rejected" => InSeq(c_batch[i].url, c_visited)

\* a task that crawlPage leaves at line 48 or line 49
skippedTask(t) ==
    /\ t.st # "new"
    /\ \/ ~isLikelyHtmlPage(t.url)
       \/ c_opts.respectRobots /\ ~robotsAllows(c_robots, t.url)

\* C17: a crawl task whose URL fails the likely-HTML classification, or that the
\* robots policy disallows while respectRobots is set, is skipped without being
\* fetched, and its URL is still added to the Visited Set.
SkippedStillVisited ==
    \A i \in 1..Len(c_batch) :
        skippedTask(c_batch[i]) =>
            /\ \A g \in 1..Len(c_gotos) : c_gotos[g].url # c_batch[i].url
            /\ InSeq(c_batch[i].url, c_visited)

----------------------------------------------------------------------------
(* crawlSite: the life of a task *)

\* the tasks of the running batch whose crawlPage call has not started
waitingInBatch == Cardinality({ i \in 1..Len(c_batch) : c_batch[i].st = "new" })

\* C18 as claimed: every crawl task that was created has been consumed by a
\* worker, exactly once, when crawlSite returns.
EveryTaskConsumed ==
    c_pc = "returned" => c_consumed = c_created /\ c_queue = <<>>

\* C18 as amended: every crawl task is consumed at most once and never mutated;
\* when crawlSite returns, every task created has been consumed exactly once
\* but for those still on the Frontier Queue, and tasks are left there only
\* when the Visited Set has reached maxPages.
TaskConsumedOnceUnlessBudget ==
    /\ [](c_created = c_consumed + Len(c_queue) + waitingInBatch)
    /\ [](c_pc = "returned" => waitingInBatch = 0)
    /\ [](c_pc = "returned" /\ Len(c_visited) < c_opts.maxPages =>
             c_consumed = c_created /\ c_queue = <<>>)
    /\ [][ /\ (c_batch # <<>> /\ c_batch' # <<>> =>
                 /\ Len(c_batch') = Len(c_batch)
                 /\ \A i \in 1..Len(c_batch) :
                       /\ c_batch'[i].url = c_batch[i].url
                       /\ c_batch'[i].depth = c_batch[i].depth)
           /\ \E k \in 0..Len(c_queue) :
                 /\ Len(c_queue') >= Len(c_queue) - k
                 /\ SubSeq(c_queue', 1, Len(c_queue) - k) = SubSeq(c_queue, k + 1, Len(c_queue))
         ]_vars

TaskConsumedOnceUnlessBudgetWitness ==
    /\ c_pc = "returned"
    /\ c_queue # <<>> /\ c_consumed < c_created
    /\ Len(c_visited) = c_opts.maxPages /\ c_opts.maxPages > 0

\* crawlSite is over and no task of its last batch is still running
crawlHalted ==
    /\ c_pc \in {"returned", "threw"}
    /\ \A i \in 1..Len(c_batch) : c_batch[i].st \in {"done", "rejected"}

\* C19: crawlSite eventually returns, whatever the link graph, maxPages,
\* maxDepth and concurrency: a run of crawlSite that can take no further step
\* has returned; and when it returns the Frontier Queue is empty or the Visited
\* Set has reached maxPages.
CrawlEndsByReturning ==
    /\ (crawlHalted => c_pc = "returned")
    /\ (c_pc = "returned" => c_queue = <<>> \/ Len(c_visited) >= c_opts.maxPages)

----------------------------------------------------------------------------
(* crawlSite on a site where one page is linked at two depths *)

PageU == Page(<<"/", "u">>)
PageV == Page(<<"/", "v">>)

\* / links to /a (twice) and /c; /a to /b; /b and /c both to /u; /u to /v.
\* /u is two links from the seed through /c and three through /a and /b.
DeepSite ==
    [p \in { BaseUrl, PageA, PageB, PageC, PageU, PageV } |->
        CASE p = BaseUrl -> << Ref(<<"/", "a">>, NoFragment), Ref(<<"/", "a">>, "f"),
                               Ref(<<"/", "c">>, NoFragment) >>
          [] p = PageA -> << Ref(<<"/", "b">>, NoFragment) >>
          [] p = PageB -> << Ref(<<"/", "u">>, NoFragment) >>
          [] p = PageC -> << Ref(<<"/", "u">>, NoFragment) >>
          [] p = PageU -> << Ref(<<"/", "v">>, NoFragment) >>
          [] OTHER -> <<>>]

SpecCrawlDeepInit ==
    /\ c_opts \in [baseUrl : {BaseUrl}, maxPages : {DeepMaxPages},
                   maxDepth : 1..(MaxDepthBound + 1),
                   concurrency : 1..MaxConcurrency, respectRobots : BOOLEAN]
    /\ c_site = DeepSite
    /\ c_robots \in RobotsPolicies
    /\ CrawlStart
    /\ CallsIdle /\ HarvestIdle /\ DiscoverIdle

SpecCrawlDeep == SpecCrawlDeepInit /\ [][CrawlStep]_vars

\* crawlPage would go past lines 48 and 49 for u
eligible(u) ==
    /\ isLikelyHtmlPage(u)
    /\ c_opts.respectRobots => robotsAllows(c_robots, u)

\* the URLs reachable from the seed by a chain of at most k links that the
\* crawler keeps (same host, likely HTML) and the robots policy allows
RECURSIVE reachableWithin(_)
reachableWithin(k) ==
    IF k = 0 THEN { u \in { startUrl } : eligible(u) }
    ELSE LET near == reachableWithin(k - 1)
         IN near \cup { v \in UNION { Range(candidates(u, c_site[u])) :
                                         u \in near \cap DOMAIN c_site } : eligible(v) }

\* C20: when the page budget is never reached and no page fetch fails, every
\* URL within maxDepth kept and robots-allowed links of the seed is in the
\* Visited Set when crawlSite returns, under every interleaving of the workers.
ReachableAllVisited ==
    c_pc = "returned" /\ ~c_failed /\ Len(c_visited) < c_opts.maxPages =>
        \A u \in reachableWithin(c_opts.maxDepth) : InSeq(u, c_visited)

----------------------------------------------------------------------------
(* scan/axeRunner.ts: runAxeForUrls *)

\* a threshold that stops only once it is exceeded
exceededMaxIssues(totalViolations, maxIssues) ==
    maxIssues > 0 /\ totalViolations > maxIssues

\* line 102
reachedMaxIssues(totalViolations, maxIssues) ==
    maxIssues > 0 /\ totalViolations >= maxIssues

AxeResult(url, violations, error) ==
    [url |-> url, violations |-> violations, error |-> error]

\* lines 32-44: browser, context and page are there, the loop is about to start
ScanInit ==
    /\ x_pc = "loop"
    /\ x_urls \in SeqsUpTo({PageA, PageB}, MaxUrls)
    /\ x_maxIssues \in 0..MaxIssuesBound
    /\ x_idx = 1
    /\ x_results = <<>> /\ x_total = 0 /\ x_gotos = <<>>
    /\ UrlIdle /\ SameHostIdle /\ RobotsIdle /\ CrawlIdle /\ HarvestIdle /\ DiscoverIdle
    /\ HtmlIdle

\* lines 46-106: the page is loaded and axe reports n violations; the result is
\* pushed, the total grows and the loop breaks when the threshold is reached
ScanPage ==
    /\ x_pc = "loop" /\ x_idx <= Len(x_urls)
    /\ \E n \in 0..MaxViolations :
          /\ x_results' = Append(x_results, AxeResult(x_urls[x_idx], n, FALSE))
          /\ x_total' = x_total + n
          /\ IF reachedMaxIssues(x_total + n, x_maxIssues)
             THEN x_pc' = "returned" /\ UNCHANGED x_idx
             ELSE x_idx' = x_idx + 1 /\ UNCHANGED x_pc
    /\ x_gotos' = Append(x_gotos, x_urls[x_idx])
    /\ UNCHANGED <<x_urls, x_maxIssues>>
    /\ UNCHANGED nonScanVars

\* lines 50-93 throw (goto, injectAxe, axe.run, the screenshots), lines 107-111:
\* an error result is pushed and the loop goes on
ScanThrows ==
    /\ x_pc = "loop" /\ x_idx <= Len(x_urls)
    /\ x_results' = Append(x_results, AxeResult(x_urls[x_idx], 0, TRUE))
    /\ x_gotos' = Append(x_gotos, x_urls[x_idx])
    /\ x_idx' = x_idx + 1
    /\ UNCHANGED <<x_pc, x_urls, x_maxIssues, x_total>>
    /\ UNCHANGED nonScanVars

\* the for loop is over: lines 113-117
ScanReturn ==
    /\ x_pc = "loop" /\ x_idx > Len(x_urls)
    /\ x_pc' = "returned"
    /\ UNCHANGED <<x_urls, x_maxIssues, x_idx, x_results, x_total, x_gotos>>
    /\ UNCHANGED nonScanVars

SpecScan == ScanInit /\ [][ScanPage \/ ScanThrows \/ ScanReturn]_vars

\* the violations of the first k results
RECURSIVE cumulative(_)
cumulative(k) == IF k = 0 THEN 0 ELSE cumulative(k - 1) + x_results[k].violations

\* the first k results hold maxIssues violations or more
reachedThreshold(k) == x_maxIssues > 0 /\ cumulative(k) >= x_maxIssues

\* C16: with maxIssues = 0 every input URL yields exactly one result, in input
\* order; with maxIssues > 0 the scan stops right after the first URL at which
\* the cumulative number of violations reaches maxIssues and no later URL is
\* scanned; a URL whose scan throws yields an error result and the loop goes on.
ScanHonoursMaxIssues ==
    LET n == Len(x_results)
    IN /\ n <= Len(x_urls)
       /\ \A i \in 1..n : x_results[i].url = x_urls[i]
       /\ x_gotos = SubSeq(x_urls, 1, n)
       /\ \A k \in 1..(n - 1) : ~reachedThreshold(k)
       /\ \A i \in 1..n : x_results[i].error => x_results[i].violations = 0
       /\ x_pc = "returned" =>
             /\ x_maxIssues = 0 => n = Len(x_urls)
             /\ n < Len(x_urls) => reachedThreshold(n) /\ ~x_results[n].error
             /\ n > 0 /\ reachedThreshold(n) => ~x_results[n].error

ScanHonoursMaxIssuesWitness ==
    /\ x_pc = "returned"
    /\ x_maxIssues = 2 /\ Len(x_urls) = 3
    /\ Len(x_results) = 2 /\ x_results[1].error
    /\ x_results[2].violations = 2

----------------------------------------------------------------------------
(* crawlSite: the order of the fetches *)

\* a task that is still to be processed: on the queue, or in the batch and not finished
pendingBelow(k) ==
    \/ \E i \in 1..Len(c_queue) : c_queue[i].depth < k
    \/ \E i \in 1..Len(c_batch) : c_batch[i].st # "done" /\ c_batch[i].depth < k

\* the step issues a page.goto for a task of depth k
issuesGoto(k) ==
    /\ Len(c_gotos') = Len(c_gotos) + 1
    /\ c_gotos'[Len(c_gotos')].depth = k

\* strict breadth-first level order: no page is fetched while a task of a smaller
\* depth is still to be processed
StrictLevelOrder ==
    [][\A k \in 0..(MaxDepthBound + 2) : issuesGoto(k) => ~pendingBelow(k)]_vars

\* C21: strict breadth-first level order is not guaranteed: a page of depth 2 is
\* fetched while a task of depth 1 is unfinished only in a crawl with concurrency
\* >= 2 (with concurrency 1 the fetches follow the levels), and such an execution
\* exists: tasks of two depths share a batch, and tasks are pushed in completion
\* order, so the queue itself is no longer ordered by depth.
LevelOrderOnlySequential ==
    [][\A k \in 0..(MaxDepthBound + 2) :
          issuesGoto(k) /\ pendingBelow(k) => c_opts.concurrency >= 2]_vars

\* /c (depth 1) and /b (depth 2) share a batch; /b was fetched while /c was not yet,
\* and /b's link to /u was pushed at depth 3 before /c pushed the same at depth 2
LevelOrderOnlySequentialWitness ==
    /\ c_opts.concurrency = 2
    /\ Len(c_batch) = 2
    /\ c_batch[1].url = PageC /\ c_batch[1].depth = 1 /\ c_batch[1].st = "opening"
    /\ c_batch[2].url = PageB /\ c_batch[2].depth = 2 /\ c_batch[2].st = "done"
    /\ \E g \in 1..Len(c_gotos) : c_gotos[g] = [url |-> PageB, depth |-> 2]
    /\ \A g \in 1..Len(c_gotos) : c_gotos[g].url # PageC
    /\ c_queue = << [url |-> PageU, depth |-> 3] >>

----------------------------------------------------------------------------
(* crawlSite: batches *)

\* the tasks of the batch that hold a browser context: created or navigating
inFlight ==
    Cardinality({ i \in 1..Len(c_batch) : c_batch[i].st \in {"opening", "fetching"} })

\* every task of the batch has left crawlPage
batchFinished == \A i \in 1..Len(c_batch) : c_batch[i].st = "done"

\* C22: batches never overlap: a batch holds at most `concurrency` tasks, taken
\* from the front of the queue; no task of the next batch starts before every
\* task of the current one has finished and the pause after it has elapsed; so
\* at most `concurrency` page fetches are in flight at any time.
BatchesNeverOverlap ==
    /\ [](Len(c_batch) <= c_opts.concurrency /\ inFlight <= c_opts.concurrency)
    /\ [](c_pc \in {"loop", "sleep", "returned"} => batchFinished)
    /\ [][ /\ (c_pc' = "batch" /\ c_pc # "batch" =>
                  /\ c_pc = "loop" /\ batchFinished
                  /\ Len(c_batch') = Min(c_opts.concurrency, Len(c_queue))
                  /\ \A i \in 1..Len(c_batch') :
                        /\ c_batch'[i].url = c_queue[i].url
                        /\ c_batch'[i].depth = c_queue[i].depth
                        /\ c_batch'[i].st = "new"
                  /\ c_queue' = SubSeq(c_queue, Len(c_batch') + 1, Len(c_queue)))
           /\ (c_pc' = "loop" /\ c_pc # "loop" => c_pc = "sleep")
           /\ (c_pc' = "sleep" /\ c_pc # "sleep" => c_pc = "batch" /\ batchFinished)
           /\ (c_pc = "batch" /\ c_pc' = "batch" => Len(c_batch') = Len(c_batch))
         ]_vars

\* the second batch of a crawl, /b and /c, taken after the seed's batch and the
\* pause: both fetches are in flight and the first has already pushed new tasks
BatchesNeverOverlapWitness ==
    /\ c_pc = "batch" /\ c_opts.concurrency = 2
    /\ Len(c_batch) = 2 /\ c_batch[1].url = PageB /\ c_batch[2].url = PageC
    /\ c_batch[1].st = "done" /\ c_batch[2].st = "fetching"
    /\ Len(c_gotos) = 3
    /\ c_queue # <<>>

----------------------------------------------------------------------------
(* crawlSite: browser contexts *)

----------------------------------------------------------------------------
(* crawlSite: the Visited Set *)

\* the step starts crawlPage for the i-th task of the batch
entersTask(i) ==
    /\ i \in 1..Len(c_batch) /\ Len(c_batch') = Len(c_batch)
    /\ c_batch[i].st = "new" /\ c_batch'[i].st # "new"

\* C24: the Visited Set only grows during a crawl: a URL once added is a member
\* in every later state (and keeps its place), and a task whose URL is already
\* visited returns without changing the Visited Set, the queue or the number of
\* fetches.
VisitedOnlyGrows ==
    [][ /\ Len(c_visited') >= Len(c_visited)
        /\ SubSeq(c_visited', 1, Len(c_visited)) = c_visited
        /\ \A i \in 1..MaxConcurrency + 1 :
              entersTask(i) /\ InSeq(c_batch[i].url, c_visited) =>
                  /\ c_batch'[i].st = "done"
                  /\ c_visited' = c_visited
                  /\ c_queue' = c_queue
                  /\ c_gotos' = c_gotos
      ]_vars

\* the seed linked to /a four times: /a was fetched in the second batch, and the
\* two tasks of the third batch, both for /a, returned and changed nothing
VisitedOnlyGrowsWitness ==
    /\ c_pc = "batch" /\ Len(c_batch) = 2
    /\ c_batch[1] = Task(PageA, 1, "done") /\ c_batch[2] = Task(PageA, 1, "done")
    /\ c_visited = << startUrl, PageA >>
    /\ Len(c_gotos) = 2
    /\ c_consumed = 5
    /\ c_queue # <<>>

----------------------------------------------------------------------------
(* fetchXml: which responses are taken as a document *)

\* the latest response is one the claim calls a document
isDocument(res) ==
    /\ res.status \in 200..299
    /\ res.looksXml \/ res.isXmlType

\* C25: a sitemap response is accepted as a document exactly when its status is
\* 2xx and its body passes the XML-shape sniff or its content type contains
\* 'xml' or 'text/plain'; a 2xx response that fails both tests counts as a failed
\* attempt: lastError is set, and it is retried after the exponential backoff, or
\* fetchXml throws when it was the fourth attempt.
AcceptedIffXmlShaped ==
    f_requests > 0 =>
        LET res == f_last.res
        IN /\ (f_pc = "returned" => isDocument(res))
           /\ (isDocument(res) => f_pc \in {"returned", "idle"})
           /\ (res.status \in 200..299 /\ ~res.looksXml /\ ~res.isXmlType =>
                  /\ f_lastError
                  /\ f_pc \in {"sleep", "get", "threw"}
                  /\ (f_pc = "sleep" =>
                         /\ f_attempt < maxAttempts
                         /\ f_delay = Min(30000, 1000 * pow2(f_attempt)))
                  /\ (f_pc = "get" =>
                         /\ f_attempt = f_requests + 1
                         /\ f_now - f_last.at = Min(30000, 1000 * pow2(f_requests)))
                  /\ (f_pc = "threw" => f_requests = maxAttempts))

\* the first answer was a 200 with an HTML body and content type: fetchXml sleeps
\* 2000 ms before its second attempt
AcceptedIffXmlShapedWitness ==
    /\ f_pc = "sleep" /\ f_attempt = 1 /\ f_requests = 1
    /\ f_last.res = Response(200, FALSE, FALSE, RaAbsent)
    /\ f_lastError /\ f_delay = 2000

----------------------------------------------------------------------------
(* fetchXml: the delays *)

\* the delay of the running sleep was taken from the Retry-After header
delayFromHeader ==
    /\ f_last.res.status \in {429, 503}
    /\ f_last.res.retryAfter.kind \in {"number", "date"}

\* 2000, 4000, 8000, 16000 ms for attempts 1..4, never more than 30000
backoffTable(attempt) ==
    CASE attempt = 1 -> 2000 [] attempt = 2 -> 4000 [] attempt = 3 -> 8000
      [] attempt = 4 -> 16000 [] OTHER -> 30000

\* C26: every delay fetchXml computes is non-negative; a delay not taken from a
\* Retry-After header is min(30000, 1000 * 2^attempt) ms for the 1-based attempt
\* (2000, 4000, 8000 for attempts 1..3), never above 30000; a Retry-After that is
\* a negative number or a date in the past gives 0; an absent or unparseable
\* Retry-After gives the exponential value.
DelaysWithinBackoff ==
    f_pc = "sleep" =>
        LET ra == f_last.res.retryAfter
        IN /\ f_delay >= 0
           /\ (~delayFromHeader =>
                  /\ f_delay = backoffTable(f_attempt)
                  /\ f_delay <= 30000)
           /\ (delayFromHeader /\ ra.kind = "number" /\ ra.value < 0 => f_delay = 0)
           /\ (delayFromHeader /\ ra.kind = "date" /\ ra.value <= f_now => f_delay = 0)
           /\ (f_last.res.status \in {429, 503} /\ ra.kind \in {"absent", "garbage"} =>
                  f_delay = backoffTable(f_attempt))

\* the third attempt got a 503 whose Retry-After does not parse and sleeps 8000 ms;
\* the first had a Retry-After that gave 0, the second slept 4000 ms
DelaysWithinBackoffWitness ==
    /\ f_pc = "sleep" /\ f_attempt = 3 /\ f_sleeps = 3
    /\ f_last.res = Response(503, FALSE, FALSE, RetryAfter("garbage", 0))
    /\ f_delay = 8000
    /\ f_now = StartTime + 4000

----------------------------------------------------------------------------
(* parseSitemapUrls: what it returns *)

\* canonical form: no fragment, no trailing slash but for the root path, the query
\* sorted by key and in the one spelling URLSearchParams writes
canonical(u) ==
    /\ u.hash = NoFragment
    /\ u.pathname = <<"/">> \/ ~endsWithSlash(u.pathname)
    /\ u.query = sortedSearch(u.query)

\* C27: every URL parseSitemapUrls returns, from a urlset or through nested
\* sitemapindex documents, is in canonical form and passes isSameHost against
\* the base; a loc that does not resolve to a URL is skipped and the other locs
\* of the document are still processed.
HarvestedAreCanonical ==
    h_pc = "done" =>
        /\ \A i \in 1..Len(h_result) :
              /\ canonical(h_result[i])
              /\ isSameHost(h_base, h_result[i])
        /\ (served(rootSitemap) =>
               keptOf(h_web[PathSitemap].urlset) \subseteq Range(h_result))

----------------------------------------------------------------------------
(* parseSitemapUrls on sitemapindex documents that form a cycle *)

\* /sitemap.xml names itself
IndexSelf == Doc(TRUE, <<>>, << Ref(PathSitemap, NoFragment) >>)
\* a urlset entry, a loc that does not parse, a urlset document, then itself
IndexSelfLast ==
    Doc(TRUE, << Ref(<<"/", "a">>, NoFragment) >>,
        << BadLoc, Ref(PathSm2, NoFragment), Abs(PathSitemap) >>)
IndexSm1 == Doc(TRUE, <<>>, << Ref(PathSm1, NoFragment) >>)
IndexRoot == Doc(TRUE, << Ref(<<"/", "b">>, NoFragment) >>, << Ref(PathSitemap, NoFragment) >>)

\* the webs in which the harvest of /sitemap.xml comes back to a document it is in
CyclicWebs ==
    { [p \in SitemapPaths |->
          CASE p = PathSitemap -> r [] p = PathSm1 -> c1 [] OTHER -> c2] :
      r \in { IndexSelf, IndexSelfLast, IndexSm1 },
      c1 \in { IndexRoot, IndexSm2, IndexSm1 },
      c2 \in { UrlsetABC, UrlsetOverlap, IndexRoot, IndexSm1 } }
    \ { w \in [SitemapPaths -> { IndexSm1, IndexSm2, UrlsetABC, UrlsetOverlap }] :
          w[PathSitemap] = IndexSm1 /\ w[PathSm1] = IndexSm2
              /\ w[PathSm2] \in { UrlsetABC, UrlsetOverlap } }

SpecHarvestCycleInit ==
    /\ h_base \in { BaseUrl, LocalBase }
    /\ h_web \in CyclicWebs
    /\ h_servers = [p \in SitemapPaths |-> "ok"]
    /\ HarvestStart([h_base EXCEPT !.pathname = PathSitemap])
    /\ CallsIdle /\ CrawlIdle /\ DiscoverIdle

\* every fetch succeeds: fetchXml never sleeps and never throws
SpecHarvestCycle == SpecHarvestCycleInit /\ [][Attempt \/ Parse \/ Descend \/ Ascend]_vars

\* the calls on the stack that harvest the document at url
callsOn(url) == Cardinality({ k \in 1..Len(h_stack) : h_stack[k].url = url })

\* C28: the harvest of a sitemapindex that references itself, directly or through
\* a cycle of indexes, never terminates while every fetch succeeds: the outermost
\* call never returns, no call is refused because its sitemap is already being
\* harvested, and the harvest only ever stops where the model cuts the nesting.
CyclicIndexNeverReturns ==
    /\ h_pc = "running"
    /\ h_stack # <<>> /\ h_stack[1].url = rootSitemap /\ ~returning(h_stack[1])
    /\ (Len(h_stack) < MaxNesting => ENABLED (Attempt \/ Parse \/ Descend \/ Ascend))

\* /sitemap.xml names itself: it was fetched and parsed MaxNesting times, each time
\* by a call nested in the one before
CyclicIndexNeverReturnsWitness ==
    /\ h_web[PathSitemap] = IndexSelf
    /\ Len(h_stack) = MaxNesting
    /\ callsOn(rootSitemap) = MaxNesting
    /\ Top.stage = "nested" /\ Top.idx = 1

----------------------------------------------------------------------------
(* normalizeUrl: the trailing slash *)

\* C29: the output of normalizeUrl never has a path ending in '/' unless the path
\* is exactly the root '/', for every parseable input, also one whose path ends
\* in several slashes.
NoTrailingSlash ==
    u_stage \in {"once", "twice"} =>
        u_once.pathname = <<"/">> \/ ~endsWithSlash(u_once.pathname)

----------------------------------------------------------------------------
(* normalizeUrl: the query *)

QueryTokens ==
    { Tok("a", "1", FALSE), Tok("a", "2", FALSE), Tok("b", "1", TRUE), Tok("B", "1", FALSE),
      Tok(KeyPrecomposed, "1", FALSE), Tok(KeyDecomposed, "2", FALSE), EmptyTok }

\* the same tokens in another order
reorderings(query) ==
    { [i \in 1..Len(query) |-> query[p[i]]] : p \in Permutations(1..Len(query)) }

SpecQueryInit ==
    /\ u_stage = "input"
    /\ u_raw \in { Url("http:", "a.com", "", <<"/", "x">>, q, NoFragment) :
                     q \in SeqsUpTo(QueryTokens, MaxParams + 1) }
    /\ u_other \in { [u_raw EXCEPT !.query = q] : q \in reorderings(u_raw.query) }
    /\ u_once = NoUrl /\ u_twice = NoUrl /\ u_otherOnce = NoUrl
    /\ CrawlIdle /\ HarvestIdle /\ DiscoverIdle /\ SameHostIdle /\ RobotsIdle /\ ScanIdle
    /\ HtmlIdle

SpecQuery == SpecQueryInit /\ [][UrlNext]_vars

\* the parameters of a query: its non-empty tokens as <<key, value>>, in order
paramsOf(query) ==
    LET kept == SelectSeq(query, LAMBDA t : t # EmptyTok)
    IN [i \in 1..Len(kept) |-> <<kept[i].k, kept[i].v>>]

withKey(params, k) == SelectSeq(params, LAMBDA e : e[1] = k)

QueryKeys == { t.k : t \in QueryTokens }

\* C30: normalizeUrl outputs the query parameters of its input sorted in
\* non-decreasing order of key (in the order of the code's own comparison), keeps parameters with equal keys in their input
\* order and neither adds nor drops one; two URLs that differ only in the order
\* of parameters with distinct keys have the same canonical form.
QuerySortedStable ==
    u_stage \in {"once", "twice"} =>
        LET in == paramsOf(u_raw.query)
            out == paramsOf(u_once.query)
        IN /\ \A i, j \in 1..Len(out) :
                  i < j => localeCompare(out[i][1], out[j][1]) <= 0
           /\ Len(out) = Len(in) /\ Len(u_once.query) = Len(out)
           /\ \A k \in QueryKeys : withKey(out, k) = withKey(in, k)
           /\ ((\A k \in QueryKeys :
                    withKey(paramsOf(u_other.query), k) = withKey(in, k))
               => u_otherOnce = u_once)

----------------------------------------------------------------------------
(* isLikelyHtmlPage driven on bounded inputs *)

HtmlDirs == { <<"/">>, <<"/", "d", "/">>, <<"/", "a", ".", "p", "d", "f", "/">> }

HtmlNames == { <<>>, <<"x">>, <<"x", ".", "p", "d", "f">> }

\* extensions on neither list, and listed ones spelled with capitals
OtherExtensions == {
    <<".">>, <<".", "x", "y", "z">>, <<".", "h", "t", "m", "l", "x">>, <<".", "p", "d">>,
    <<".", "P", "D", "F">>, <<".", "P", "d", "f">>, <<".", "H", "T", "M", "L">>,
    <<".", "X", "M", "L">> }

\* pathnames the URL parser can produce: it drops a final segment "."
HtmlPaths ==
    { p \in { d \o n \o e \o s :
                d \in HtmlDirs, n \in HtmlNames,
                e \in HTML_EXTENSIONS \cup NON_HTML_EXTENSIONS \cup OtherExtensions,
                s \in { <<>>, <<"/">> } } :
        /\ ~(Len(p) >= 2 /\ p[Len(p)] = "/" /\ p[Len(p) - 1] = "/")
        /\ ~(Len(p) >= 2 /\ p[Len(p)] = "." /\ p[Len(p) - 1] = "/")
        /\ ~(Len(p) >= 3 /\ p[Len(p)] = "/" /\ p[Len(p) - 1] = "." /\ p[Len(p) - 2] = "/") }

HtmlQueries == { <<>>, <<Tok("file", "x.pdf", FALSE)>>, <<Tok("a", "1", FALSE)>> }
HtmlFragments == { NoFragment, "f", "x.pdf" }

HtmlInit ==
    /\ l_stage = "input"
    /\ l_raw \in { Url(pr, "a.com", "", p, <<>>, NoFragment) :
                     pr \in {"http:", BadScheme}, p \in HtmlPaths } \cup { NoUrl }
    /\ l_other \in { [l_raw EXCEPT !.query = q, !.hash = f] :
                       q \in HtmlQueries, f \in HtmlFragments }
    /\ l_html = FALSE /\ l_otherHtml = FALSE
    /\ CrawlIdle /\ HarvestIdle /\ DiscoverIdle
    /\ UrlIdle /\ SameHostIdle /\ RobotsIdle /\ ScanIdle

Classify ==
    /\ l_stage = "input"
    /\ l_html' = isLikelyHtmlPage(l_raw)
    /\ l_otherHtml' = isLikelyHtmlPage(l_other)
    /\ l_stage' = "done"
    /\ UNCHANGED <<l_raw, l_other>>
    /\ UNCHANGED nonHtmlVars

SpecHtml == HtmlInit /\ [][Classify]_vars

\* the part of the pathname after its last '/'
finalSegment(pathname) ==
    LET cuts == { k \in 1..Len(pathname) : pathname[k] = "/" }
        last == IF cuts = {} THEN 0 ELSE CHOOSE k \in cuts : \A j \in cuts : j <= k
    IN SubSeq(pathname, last + 1, Len(pathname))

\* the part of a segment from its last '.' on, empty when it has none
extensionOf(segment) ==
    LET dots == { k \in 1..Len(segment) : segment[k] = "." }
    IN IF dots = {} THEN <<>>
       ELSE SubSeq(segment, CHOOSE k \in dots : \A j \in dots : j <= k, Len(segment))

\* C31: isLikelyHtmlPage decides on the lower-cased extension of the final path
\* segment only: true for an allow-listed extension and for none (also when the
\* path ends in '/'), false for a deny-listed one, true for one on neither list,
\* false for a string new URL() throws on; the query string and the fragment
\* never change the result.
HtmlByExtensionOnly ==
    l_stage = "done" =>
        LET ext == toLowerCase(extensionOf(finalSegment(l_raw.pathname)))
        IN /\ ~parseable(l_raw) => l_html = FALSE
           /\ parseable(l_raw) /\ ext \in HTML_EXTENSIONS => l_html = TRUE
           /\ parseable(l_raw) /\ ext \in NON_HTML_EXTENSIONS => l_html = FALSE
           /\ parseable(l_raw) /\ ext \notin HTML_EXTENSIONS \cup NON_HTML_EXTENSIONS
                => l_html = TRUE
           /\ parseable(l_raw) /\ endsWithSlash(l_raw.pathname) => l_html = TRUE
           /\ l_otherHtml = l_html

\* a deny-listed extension in capitals, under a directory with a dot, classified
\* together with the same URL carrying a query and a fragment that end in ".pdf"
HtmlByExtensionOnlyWitness ==
    /\ l_stage = "done"
    /\ l_raw.protocol = "http:"
    /\ l_raw.pathname = <<"/", "a", ".", "p", "d", "f", "/", "x", ".", "P", "D", "F">>
    /\ l_html = FALSE
    /\ l_other.query = <<Tok("file", "x.pdf", FALSE)>>
    /\ l_other.hash = "x.pdf"

----------------------------------------------------------------------------
(* discoverSitemaps and the harvest loop of discover, up to the crawl *)

\* args.sitemap: absent, a sitemap of its own, one robots.txt declares too, the
\* default one, and the default one written with a fragment
Explicits ==
    { NoUrl, Abs(PathSm1), Abs(PathSm2), Abs(PathSitemap),
      [Abs(PathSitemap) EXCEPT !.hash = "top"] }

SpecSeedsInit ==
    /\ d_pc = "start"
    /\ d_robots \in RobotsPolicies
    /\ d_explicit \in Explicits
    /\ d_sitemaps = <<>> /\ d_idx = 0
    /\ d_returned = <<>> /\ d_sitemapUrls = <<>> /\ d_combined = <<>>
    /\ h_pc = "idle"
    /\ h_base = BaseUrl
    /\ h_web \in { w \in Webs : /\ w[PathSitemap] \in { UrlsetABC, IndexBoth }
                                 /\ w[PathSm1] = UrlsetOverlap
                                 /\ w[PathSm2] = UrlsetABC }
    /\ h_servers = [p \in SitemapPaths |-> "ok"]
    /\ h_stack = <<>> /\ h_result = <<>>
    /\ f_pc = "idle" /\ f_attempt = 0 /\ f_lastError = FALSE
    /\ f_requests = 0 /\ f_sleeps = 0 /\ f_delay = 0
    /\ f_last = [res |-> NoResponse, at |-> 0]
    /\ f_now = StartTime
    /\ CrawlIdle /\ CallsIdle

\* cli lines 42-49
SeedsNext ==
    \/ DiscoverSitemaps
    \/ HarvestSeed
    \/ Attempt \/ Parse \/ Descend \/ Ascend
    \/ CollectSeed

SpecSeeds == SpecSeedsInit /\ [][SeedsNext]_vars

\* the document a request for url asks for: the fragment is not sent
requestTarget(url) == [url EXCEPT !.hash = NoFragment]

\* the seeds parseSitemapUrls was called for so far (cli line 47)
seedsHarvested ==
    IF h_pc \in {"running", "done"} THEN d_idx
    ELSE IF d_idx = 0 THEN 0 ELSE d_idx - 1

\* C32: the seed list starts with {base}/sitemap.xml, then holds the sitemaps
\* robots.txt declares and then the explicit one if given; it holds no sitemap
\* twice, so no seed sitemap is harvested more than once in a discovery run.
SeedsListedOnce ==
    d_pc = "harvest" =>
        /\ d_sitemaps[1] = rootSitemap
        /\ d_sitemaps = firstSeen(<<rootSitemap>> \o d_robots.sitemaps
                          \o (IF d_explicit = NoUrl THEN <<>> ELSE <<d_explicit>>))
        /\ \A i, j \in 1..Len(d_sitemaps) :
               i < j => requestTarget(d_sitemaps[i]) # requestTarget(d_sitemaps[j])
        /\ \A i, j \in 1..seedsHarvested :
               i < j => requestTarget(d_sitemaps[i]) # requestTarget(d_sitemaps[j])

----------------------------------------------------------------------------
\* C33: no two elements of the discovery result have the same canonical form,
\* and every element is a fixed point of normalizeUrl.
ResultCanonicallyDistinct ==
    d_pc = "done" =>
        /\ \A i, j \in 1..Len(d_combined) :
               i < j => normalizeUrl(d_combined[i]) # normalizeUrl(d_combined[j])
        /\ \A i \in 1..Len(d_combined) : normalizeUrl(d_combined[i]) = d_combined[i]

----------------------------------------------------------------------------
\* C34: a sitemap document that carries both a urlset and a sitemapindex
\* contributes both: the call returns the union of the page locations it keeps
\* itself and of everything harvested from the sitemaps it names.
BothListsContribute ==
    LET doc == h_web[PathSitemap]
    IN h_pc = "done" /\ served(rootSitemap) /\ doc.urlset # <<>> /\ doc.sitemaps # <<>>
       => /\ keptOf(doc.urlset) \subseteq Range(h_result)
          /\ \A c \in childrenOf(doc.sitemaps) : treeUrls(c) \subseteq Range(h_result)
          /\ Range(h_result) \subseteq
                 keptOf(doc.urlset) \cup UNION { treeUrls(c) : c \in childrenOf(doc.sitemaps) }

\* the root document lists /a itself and names sm1.xml, which lists /b, /d and /a
\* in other spellings: the result is a, b, d
BothListsContributeWitness ==
    /\ h_pc = "done" /\ h_base = BaseUrl
    /\ h_web[PathSitemap] = UrlsetAndIndex
    /\ h_web[PathSm1] = UrlsetOverlap
    /\ h_result = << PageA, PageB, Page(<<"/", "d">>) >>

----------------------------------------------------------------------------
(* crawlSite on a site served under several loopback names *)

Loopback(pathname) == Url("http:", "127.0.0.1", "8080", pathname, <<>>, NoFragment)
SecureLocal(pathname) == Url("https:", "localhost", "", pathname, <<>>, NoFragment)
Elsewhere == Url("https:", "other.com", "", <<"/", "a">>, <<>>, NoFragment)

\* http://localhost:3000/ links to http://127.0.0.1:8080/a, which links to
\* https://localhost/c, which links to /d; every page links to another site too
LocalSite ==
    [p \in { LocalBase, [LocalBase EXCEPT !.pathname = <<"/", "b">>],
             Loopback(<<"/", "a">>), Loopback(<<"/", "b">>),
             SecureLocal(<<"/", "c">>), SecureLocal(<<"/", "d">>) } |->
        CASE p = LocalBase ->
                 << Loopback(<<"/", "a">>), Elsewhere, Ref(<<"/", "b">>, NoFragment) >>
          [] p = Loopback(<<"/", "a">>) ->
                 << Ref(<<"/", "b">>, NoFragment), Elsewhere, SecureLocal(<<"/", "c">>) >>
          [] p = SecureLocal(<<"/", "c">>) ->
                 << Elsewhere, Ref(<<"/", "d">>, NoFragment), LocalBase >>
          [] OTHER -> << Elsewhere >>]

SpecCrawlLocalInit ==
    /\ \/ /\ c_opts \in [baseUrl : {LocalBase}, maxPages : {DeepMaxPages},
                         maxDepth : 0..(MaxDepthBound + 1),
                         concurrency : 1..MaxConcurrency, respectRobots : BOOLEAN]
          /\ c_site = LocalSite
       \/ /\ c_opts \in [baseUrl : {BaseUrl}, maxPages : {MaxPagesBound},
                         maxDepth : 0..MaxDepthBound,
                         concurrency : 1..MaxConcurrency, respectRobots : BOOLEAN]
          /\ c_site \in { st \in Sites : st[BaseUrl] = LinksMixed /\ st[PageA] = <<>> }
    /\ c_robots \in RobotsPolicies
    /\ CrawlStart
    /\ CallsIdle /\ HarvestIdle /\ DiscoverIdle

SpecCrawlLocal == SpecCrawlLocalInit /\ [][CrawlStep]_vars

\* the URLs the crawl holds: visited, queued, or in the running batch
heldUrls ==
    Range(c_visited) \cup { c_queue[i].url : i \in 1..Len(c_queue) }
        \cup { c_batch[i].url : i \in 1..Len(c_batch) }

\* C35: every URL in the Visited Set and in the Frontier Queue is same-host with
\* the seed URL in every reachable state, although each link is compared with
\* the page it was found on; isSameHost is reflexive, symmetric and transitive
\* on the URLs the crawl holds.
AllSameHostAsSeed ==
    /\ \A u \in heldUrls : isSameHost(startUrl, u)
    /\ \A a, b, c \in heldUrls \cup {startUrl} :
          /\ isSameHost(a, a)
          /\ isSameHost(a, b) => isSameHost(b, a)
          /\ isSameHost(a, b) /\ isSameHost(b, c) => isSameHost(a, c)

\* the seed is http://localhost:3000/; https://localhost/c, found on a page of
\* 127.0.0.1:8080, is visited and its link /d is on the queue
AllSameHostAsSeedWitness ==
    /\ c_opts.baseUrl = LocalBase
    /\ InSeq(SecureLocal(<<"/", "c">>), c_visited)
    /\ \E i \in 1..Len(c_queue) : c_queue[i].url = SecureLocal(<<"/", "d">>)

----------------------------------------------------------------------------
\* the tasks waiting on the queue or taken from it into the running batch
frontierTasks ==
    { [url |-> c_queue[i].url, depth |-> c_queue[i].depth] : i \in 1..Len(c_queue) }
        \cup { [url |-> c_batch[i].url, depth |-> c_batch[i].depth] : i \in 1..Len(c_batch) }

\* C36: with maxDepth >= 0 every task of the Frontier Queue has 0 <= depth <=
\* maxDepth: the seed has depth 0 and a task is enqueued only by a fetched page
\* of depth d < maxDepth, with depth d + 1; with maxDepth = 0 the crawl fetches
\* nothing and returns at most the seed.
QueueDepthBounded ==
    c_opts.maxDepth >= 0 =>
        /\ \A t \in frontierTasks :
              /\ 0 <= t.depth /\ t.depth <= c_opts.maxDepth
              /\ t.depth = 0 => t.url = startUrl
              /\ t.depth > 0 =>
                    \E k \in 1..Len(c_gotos) :
                        /\ c_gotos[k].depth = t.depth - 1
                        /\ c_gotos[k].depth < c_opts.maxDepth
                        /\ InSeq(t.url, candidates(c_gotos[k].url, c_site[c_gotos[k].url]))
        /\ c_opts.maxDepth = 0 => c_gotos = <<>> /\ Range(c_visited) \subseteq { startUrl }

\* a task at depth maxDepth waits on the queue, pushed by a page of depth
\* maxDepth - 1 that was itself found by following a link
QueueDepthBoundedWitness ==
    /\ c_opts.maxDepth >= 2
    /\ \E i \in 1..Len(c_queue) : c_queue[i].depth = c_opts.maxDepth
    /\ \E k \in 1..Len(c_gotos) : c_gotos[k].depth = c_opts.maxDepth - 1

----------------------------------------------------------------------------
\* C37: fetchXml waits only between attempts: at most 3 backoff sleeps per
\* document, and no sleep after the 4th (final) attempt before the failure is
\* reported, for 429/503 responses as for every other failure.
SleepsOnlyBetweenAttempts ==
    /\ f_sleeps <= maxAttempts - 1
    /\ f_pc = "sleep" => f_attempt < maxAttempts

----------------------------------------------------------------------------
(* parseSitemapUrls on documents whose loc entries name other origins *)

LocalDefault == Url("http:", "localhost", "", <<"/">>, <<>>, NoFragment)
SecureLoopback == Url("https:", "127.0.0.1", "8443", <<"/">>, <<>>, NoFragment)

Foreign(protocol, port, pathname) ==
    Url(protocol, "example.com", port, pathname, <<>>, NoFragment)

\* page locations on the scanned site's public origin, with and without a port
UrlsetForeign ==
    Doc(TRUE, << Foreign("https:", "", <<"/", "a">>), Foreign("http:", "8080", <<"/", "b">>),
                 Ref(<<"/", "c">>, NoFragment), Foreign("https:", "80", <<"/", "d">>) >>, <<>>)
\* nested sitemaps named on the public origin
IndexForeign ==
    Doc(TRUE, <<>>, << Foreign("https:", "", PathSm1), Foreign("http:", "8080", PathSm2) >>)
IndexForeignPlain == Doc(TRUE, <<>>, << Foreign("https:", "", PathSm1) >>)

ForeignWebs ==
    { [p \in SitemapPaths |->
          CASE p = PathSitemap -> r [] p = PathSm1 -> c1 [] OTHER -> UrlsetABC] :
      r \in { UrlsetForeign, IndexForeign, IndexForeignPlain },
      c1 \in { UrlsetForeign, UrlsetABC } }

SpecHarvestLocalInit ==
    /\ h_base \in { LocalBase, LocalDefault, SecureLoopback, BaseUrl }
    /\ h_web \in ForeignWebs
    /\ h_servers = [p \in SitemapPaths |-> "ok"]
    /\ HarvestStart([h_base EXCEPT !.pathname = PathSitemap])
    /\ CallsIdle /\ CrawlIdle /\ DiscoverIdle

SpecHarvestLocal == SpecHarvestLocalInit /\ [][HarvestStep]_vars

\* the loc entries of the sitemapindex the call at position k of the stack read
namedBy(k) ==
    { toAbsoluteUrl(h_base, loc) : loc \in Range(h_web[h_stack[k].url.pathname].sitemaps) }

\* C38: when the base host is a loopback name, every page URL parseSitemapUrls
\* returns and every nested sitemap URL it fetches carries exactly the base's
\* scheme, host and port, whatever origin the loc entries name; when the base
\* is not loopback, no URL is rewritten.
LoopbackBaseRewritesOrigin ==
    /\ isLocal(h_base.hostname) =>
          /\ h_pc = "done" => \A u \in Range(h_result) : sameOrigin(u, h_base)
          /\ \A k \in 2..Len(h_stack) : sameOrigin(h_stack[k].url, h_base)
    /\ ~isLocal(h_base.hostname) =>
          /\ h_pc = "done" =>
                \A u \in Range(h_result) :
                    \E p \in SitemapPaths : \E loc \in Range(h_web[p].urlset) :
                        u = normalizeUrl(toAbsoluteUrl(h_base, loc))
          /\ \A k \in 2..Len(h_stack) : h_stack[k].url \in namedBy(k - 1)

====
